---- MODULE Spec2Model ----
(***************************************************************************)
(* Poker Arena: the hand state machine (lib/poker/hand-manager.ts), the    *)
(* table and seat helpers (lib/poker/table.ts), the game manager and its   *)
(* tick loop (lib/game/game-manager.ts), the bot policy                    *)
(* (lib/game/auto-players.ts), the HTTP adapters that talk to the escrow   *)
(* and the PokerEscrow contract, for one table.                            *)
(*                                                                         *)
(* Abstractions: cards are not modelled; the shuffled deck is the          *)
(* parameter deck, a ranking of the seats' final hands, so that            *)
(* compareHands(evaluateHand(a), evaluateHand(b)) is deck[a] - deck[b].    *)
(* Wall-clock time is the hand field elapsed (Date.now() - lastActionAt),  *)
(* which only takes the values the code compares it with.                  *)
(***************************************************************************)
EXTENDS Integers, Sequences, FiniteSets, TLC

\* ------------------------------------------------------------------ bounds
MaxSeats == 3        \* config.maxSeats of the modelled table
MinBuyIn == 3        \* config.minBuyIn
MaxBuyIn == 4        \* config.maxBuyIn
MaxHands == 1        \* hands started per run (caps table.handCount)
MaxAgents == 4       \* agents ever created (caps the id generator)
MaxAmount == 5       \* largest amount a request carries
NumStrengths == 2    \* distinct final hand strengths a deck can produce
MaxRequests == 2     \* seat requests (sit, add-bot, stand, resume, leave, rebuy) per run
MaxPersisted == 1          \* highest hand number the database can hold at a restart
MaxHandsBetween == 2 \* caps table.handCount at a table that has played a hand

\* ------------------------------------------------------ program constants
SmallBlind == 1
BigBlind == 2
BOT_DELAY_MS == 800
BOT_ONLY_DELAY_MS == 0
TURN_TIMEOUT_MS == 30000
SHOWDOWN_DISPLAY_MS == 3000
BOT_ONLY_SHOWDOWN_MS == 300

SeatNums == 0 .. (MaxSeats - 1)
Null == -1                       \* a null seat number / an omitted amount
Amounts == {Null} \cup (0 .. MaxAmount)
Rounds == {"preflop", "flop", "turn", "river"}
ActionTypes == {"fold", "check", "call", "bet", "raise", "all-in"}
BotStrategies == {"house_fish", "house_tag", "house_lag"}
Wallets == {"w1", "w2"}
NoWallet == "none"
IdTok == <<"1", "2", "3", "4", "5", "6", "7", "8">>

\* An agent id is the sequence of its "_"-separated components.
HumanId(n) == <<"agent", IdTok[n]>>
BotId(strategy, n) ==
    <<"bot", "house", IF strategy = "house_fish" THEN "fish"
                      ELSE IF strategy = "house_tag" THEN "tag" ELSE "lag",
      IdTok[n]>>

NoAgent == [id |-> <<>>, type |-> "none", walletAddress |-> NoWallet]
NoHand == [phase |-> "null"]

createEmptySeat(seatNumber) ==
    [seatNumber |-> seatNumber, agent |-> NoAgent, stack |-> 0, holeCards |-> 0,
     isSittingOut |-> FALSE, currentBet |-> 0, hasActed |-> FALSE,
     hasFolded |-> FALSE, isAllIn |-> FALSE, buyIn |-> 0]

createTable ==
    [seats |-> [n \in SeatNums |-> createEmptySeat(n)],
     currentHand |-> NoHand, handHistory |-> <<>>, handCount |-> 0]

\* ------------------------------------------------------------ utilities
Min(a, b) == IF a < b THEN a ELSE b
Max(a, b) == IF a > b THEN a ELSE b

\* The sequence with the elements f[1], f[2], ..., each computed once.
Array(f) == f \o <<>>

\* the numbers of S in ascending order
SetToSeq(S) ==
    Array([k \in 1 .. Cardinality(S) |->
        CHOOSE x \in S : Cardinality({y \in S : y < x}) = k - 1])

RECURSIVE SumFrom(_, _)
SumFrom(s, i) == IF i > Len(s) THEN 0 ELSE s[i] + SumFrom(s, i + 1)
SumSeq(s) == SumFrom(s, 1)

InSeq(x, s) == \E i \in 1 .. Len(s) : s[i] = x
IndexOf(s, x) == CHOOSE i \in 1 .. Len(s) : s[i] = x /\ \A j \in 1 .. (i - 1) : s[j] # x
Last(s) == s[Len(s)]

\* ------------------------------------------------------- table and seats
\* Seat numbers, ascending, as table.seats.filter(...) returns the seats.
getOccupiedSeats(t) == SetToSeq({n \in SeatNums : t.seats[n].agent # NoAgent})

getActiveSeats(t) ==
    SetToSeq({n \in SeatNums : t.seats[n].agent # NoAgent /\ ~t.seats[n].isSittingOut})

\* getNextActiveSeat stepping to the next seat whether or not it is active
getNextSeat(t, afterSeat) == (afterSeat + 1) % MaxSeats

getNextActiveSeat(t, afterSeat) ==
    LET hits == {i \in 1 .. MaxSeats :
                    LET s == t.seats[(afterSeat + i) % MaxSeats]
                    IN s.agent # NoAgent /\ ~s.isSittingOut}
    IN IF hits = {} THEN Null
       ELSE (afterSeat + (CHOOSE i \in hits : \A j \in hits : i <= j)) % MaxSeats

\* seatAgent without the check that the seat is empty
seatAgentOver(t, seatNumber, agent, buyInAmount) ==
    IF seatNumber < 0 \/ seatNumber >= MaxSeats THEN [ok |-> FALSE, t |-> t]
    ELSE IF buyInAmount < MinBuyIn \/ buyInAmount > MaxBuyIn THEN [ok |-> FALSE, t |-> t]
    ELSE [ok |-> TRUE,
          t |-> [t EXCEPT !.seats[seatNumber] =
                    [seatNumber |-> seatNumber, agent |-> agent, stack |-> buyInAmount,
                     holeCards |-> 0, isSittingOut |-> FALSE, currentBet |-> 0,
                     hasActed |-> FALSE, hasFolded |-> FALSE, isAllIn |-> FALSE,
                     buyIn |-> buyInAmount]]]

seatAgent(t, seatNumber, agent, buyInAmount) ==
    IF seatNumber < 0 \/ seatNumber >= MaxSeats THEN [ok |-> FALSE, t |-> t]
    ELSE IF t.seats[seatNumber].agent # NoAgent THEN [ok |-> FALSE, t |-> t]
    ELSE IF buyInAmount < MinBuyIn \/ buyInAmount > MaxBuyIn THEN [ok |-> FALSE, t |-> t]
    ELSE [ok |-> TRUE,
          t |-> [t EXCEPT !.seats[seatNumber] =
                    [seatNumber |-> seatNumber, agent |-> agent, stack |-> buyInAmount,
                     holeCards |-> 0, isSittingOut |-> FALSE, currentBet |-> 0,
                     hasActed |-> FALSE, hasFolded |-> FALSE, isAllIn |-> FALSE,
                     buyIn |-> buyInAmount]]]

removeAgent(t, seatNumber) ==
    IF t.seats[seatNumber].agent = NoAgent THEN t
    ELSE [t EXCEPT !.seats[seatNumber] = createEmptySeat(seatNumber)]

archiveHand(t, hand) ==
    LET h == Append(t.handHistory, hand)
    IN [t EXCEPT !.handHistory = IF Len(h) > 50 THEN Tail(h) ELSE h]

getPlayersWhoCanAct(t) ==
    SetToSeq({n \in SeatNums : t.seats[n].agent # NoAgent /\ ~t.seats[n].isSittingOut
                               /\ ~t.seats[n].hasFolded /\ ~t.seats[n].isAllIn})

getPlayersStillInHand(t) ==
    SetToSeq({n \in SeatNums : t.seats[n].agent # NoAgent /\ ~t.seats[n].isSittingOut
                               /\ ~t.seats[n].hasFolded})

buildBettingOrder(t, afterSeat) ==
    LET at(i) == (afterSeat + i) % MaxSeats
        ok(i) == LET s == t.seats[at(i)]
                 IN s.agent # NoAgent /\ ~s.isSittingOut /\ ~s.hasFolded /\ ~s.isAllIn
        F[i \in 0 .. MaxSeats] ==
            IF i = 0 THEN <<>>
            ELSE IF ok(i) THEN Append(F[i - 1], at(i)) ELSE F[i - 1]
    IN F[MaxSeats]

buildPostflopOrder(t) == buildBettingOrder(t, t.currentHand.dealerSeatNumber)

getCurrentTurnSeat(hand) ==
    IF hand = NoHand THEN Null
    ELSE IF hand.phase \in {"waiting", "showdown", "complete"} THEN Null
    ELSE IF Len(hand.activePlayerOrder) = 0 THEN Null
    ELSE IF hand.currentPlayerIndex >= Len(hand.activePlayerOrder) THEN Null
    ELSE hand.activePlayerOrder[hand.currentPlayerIndex + 1]

\* ---------------------------------------------------------- hand manager
\* Bust-out handling, archive, clear.  The archive keeps the fields of the
\* finished hand that later code and the properties read.
finishHand(t) ==
    LET hand == [t.currentHand EXCEPT !.phase = "complete"]
        bust(s) == s.agent # NoAgent /\ s.stack <= 0 /\ ~s.isSittingOut
        seats1 == [n \in SeatNums |->
                     LET s == t.seats[n]
                     IN IF ~bust(s) THEN s
                        ELSE IF s.agent.type # "human"
                             THEN [s EXCEPT !.stack = MaxBuyIn, !.buyIn = s.buyIn + MaxBuyIn]
                             ELSE [s EXCEPT !.isSittingOut = TRUE]]
        archived == [handNumber |-> hand.handNumber, phase |-> hand.phase,
                     dealerSeatNumber |-> hand.dealerSeatNumber, pot |-> hand.pot,
                     communityCards |-> hand.communityCards,
                     winners |-> hand.winners, potAtShowdown |-> hand.potAtShowdown,
                     potsAtShowdown |-> hand.potsAtShowdown,
                     showdown |-> hand.showdown]
    IN [archiveHand([t EXCEPT !.seats = seats1], archived) EXCEPT !.currentHand = NoHand]

\* A Map is kept as the sequence of its entries in insertion order.  After
\* the loop "for p of puts: map.set(p.key, p.val)" a key stands where it was
\* first set and holds the value it was last set to.
MapSetAll(puts) ==
    LET n == Len(puts)
        firsts == {i \in 1 .. n : \A j \in 1 .. (i - 1) : puts[j].key # puts[i].key}
        order == SetToSeq(firsts)
    IN Array([k \in 1 .. Len(order) |->
          LET key == puts[order[k]].key
              last == CHOOSE j \in 1 .. n :
                         puts[j].key = key /\ \A l \in (j + 1) .. n : puts[l].key # key
          IN [key |-> key, val |-> puts[last].val]])

\* After the loop "for p of puts: if (!map.has(p.key)) map.set(p.key, 0);
\* map.get(p.key) += p.val" a key stands where it was first seen and holds the
\* sum of its values.
MapAddAll(puts) ==
    LET n == Len(puts)
        firsts == {i \in 1 .. n : \A j \in 1 .. (i - 1) : puts[j].key # puts[i].key}
        order == SetToSeq(firsts)
    IN Array([k \in 1 .. Len(order) |->
          LET key == puts[order[k]].key
              same == SelectSeq(puts, LAMBDA p : p.key = key)
          IN [key |-> key, val |-> SumSeq(Array([i \in 1 .. Len(same) |-> same[i].val]))]])

\* The key without its last component, the round: the whole agent id
SplitRound(key) == SubSeq(key, 1, Len(key) - 1)

\* key.split('_')[0] of a key given as the sequence of its components
SplitFirst(key) == SubSeq(key, 1, 1)

\* Array.prototype.sort((a, b) => a.total - b.total): stable, ascending
SortByTotal(s) ==
    LET n == Len(s)
        pos(i) == Cardinality({j \in 1 .. n : s[j].val < s[i].val})
                  + Cardinality({j \in 1 .. (i - 1) : s[j].val = s[i].val}) + 1
    IN Array([k \in 1 .. n |-> s[CHOOSE i \in 1 .. n : pos(i) = k]])

\* roundBets.set(`${agentId}_${round}`, amount) over the actions that are
\* not folds
roundBetsOf(bets) ==
    MapSetAll(Array([i \in 1 .. Len(bets) |->
        [key |-> bets[i].agentId \o <<bets[i].round>>, val |-> bets[i].amount]]))

\* totalBets.get(key.split('_')[0]).total += amount over roundBets
totalBetsOf(roundBets) ==
    MapAddAll(Array([i \in 1 .. Len(roundBets) |->
        [key |-> SplitFirst(roundBets[i].key), val |-> roundBets[i].val]]))

\* The loop over sortedContribs: one pot per level above the level before.
buildSidePots(sortedContribs) ==
    LET \* prevLevel when the loop reaches index i: the highest level so far
        prevLevel(i) == IF i = 1 THEN 0 ELSE Max(0, sortedContribs[i - 1].val)
        pushes == SetToSeq({i \in 1 .. Len(sortedContribs) :
                               sortedContribs[i].val > prevLevel(i)})
    IN Array([k \in 1 .. Len(pushes) |->
          LET level == sortedContribs[pushes[k]].val
              eligible == SelectSeq(sortedContribs, LAMBDA c : c.val >= level)
              numContributors ==
                  Len(SelectSeq(sortedContribs, LAMBDA c : c.val > prevLevel(pushes[k])))
          IN [amount |-> (level - prevLevel(pushes[k])) * numContributors,
              eligibleAgentIds |-> Array([j \in 1 .. Len(eligible) |-> eligible[j].key])]])

\* "Adjust: make sure total of side pots equals hand.pot", then the fallback
\* to a single pot when no pot was built.
adjustSidePots(pots, totalSidePots, pot, single) ==
    IF Len(pots) = 0 THEN single
    ELSE IF totalSidePots < pot
         THEN Array([pots EXCEPT ![Len(pots)].amount = @ + (pot - totalSidePots)])
         ELSE pots

SumAmounts(pots) == SumSeq(Array([i \in 1 .. Len(pots) |-> pots[i].amount]))

singlePot(t, playersInHand) ==
    <<[amount |-> t.currentHand.pot,
       eligibleAgentIds |->
           Array([i \in 1 .. Len(playersInHand) |-> t.seats[playersInHand[i]].agent.id])]>>

sidePotsFrom(pots, pot, single) == adjustSidePots(pots, SumAmounts(pots), pot, single)

calculateSidePots(t) ==
    IF \A n \in SeatNums :
          (t.seats[n].agent # NoAgent /\ ~t.seats[n].isSittingOut /\ ~t.seats[n].hasFolded)
              => ~t.seats[n].isAllIn
    THEN singlePot(t, getPlayersStillInHand(t))
    ELSE sidePotsFrom(
             buildSidePots(SortByTotal(totalBetsOf(roundBetsOf(
                 SelectSeq(t.currentHand.actions, LAMBDA a : a.action # "fold"))))),
             t.currentHand.pot,
             singlePot(t, getPlayersStillInHand(t)))

\* The winners of one pot share it; the first takes the remainder.
awardPot(st, t, pot, winners) ==
    LET share == pot.amount \div Len(winners)
        winAmount(j) == share + (IF j = 1 THEN pot.amount - share * Len(winners) ELSE 0)
    IN [seats |-> [n \in SeatNums |->
                     IF InSeq(n, winners)
                     THEN [st.seats[n] EXCEPT !.stack = @ + winAmount(IndexOf(winners, n))]
                     ELSE st.seats[n]],
        winners |-> st.winners \o
                    Array([j \in 1 .. Len(winners) |->
                        [agentId |-> t.seats[winners[j]].agent.id,
                         amount |-> winAmount(j), handName |-> "evaluated"]])]

\* evaluations.sort(...)[0]: the best strength among the eligible seats
bestHand(eligible, deck) ==
    CHOOSE b \in {deck[eligible[j]] : j \in 1 .. Len(eligible)} :
        \A j \in 1 .. Len(eligible) : deck[eligible[j]] <= b

payPot(st, t, pot, eligible, deck) ==
    IF Len(eligible) = 0 THEN st
    ELSE awardPot(st, t, pot, SelectSeq(eligible, LAMBDA n : deck[n] = bestHand(eligible, deck)))

\* for (const pot of sidePots) ...: the seats and the winners after the loop
payPots(t, playersInHand, sidePots, deck) ==
    LET P[i \in 0 .. Len(sidePots)] ==
            IF i = 0 THEN [seats |-> t.seats, winners |-> <<>>]
            ELSE payPot(P[i - 1], t, sidePots[i],
                        SelectSeq(playersInHand, LAMBDA n :
                            InSeq(t.seats[n].agent.id, sidePots[i].eligibleAgentIds)),
                        deck)
    IN P[Len(sidePots)]

\* What the hand keeps of its showdown for the record: the side pots as
\* calculateSidePots returned them and, for every seated agent, the chips the
\* seat has put into the pot (the buy-in less the stack, before the payout of
\* the first hand a table plays), whether it is still in the hand and all-in.
NoShowdown == [sidePots |-> <<>>, players |-> {}]

showdownRecord(t, sidePots) ==
    [sidePots |-> sidePots,
     players |-> {[agentId |-> t.seats[n].agent.id,
                   seatNumber |-> n,
                   total |-> t.seats[n].buyIn - t.seats[n].stack,
                   inHand |-> ~t.seats[n].hasFolded /\ ~t.seats[n].isSittingOut,
                   isAllIn |-> t.seats[n].isAllIn] :
                     n \in {k \in SeatNums : t.seats[k].agent # NoAgent}}]

\* hand.pot = 0; finishHand.  The hand keeps what was in the pot and what the
\* side pots added up to.
closeShowdown(t, paid, sidePots) ==
    finishHand([t EXCEPT
        !.seats = paid.seats,
        !.currentHand.winners = paid.winners,
        !.currentHand.potAtShowdown = t.currentHand.pot,
        !.currentHand.potsAtShowdown = SumAmounts(sidePots),
        !.currentHand.showdown = showdownRecord(t, sidePots),
        !.currentHand.pot = 0])

showdownPots(t, playersInHand, sidePots, deck) ==
    closeShowdown(t, payPots(t, playersInHand, sidePots, deck), sidePots)

\* The last player in the hand takes the pot.
awardLastPlayer(t, winner) ==
    finishHand([t EXCEPT
        !.seats[winner].stack = @ + t.currentHand.pot,
        !.currentHand.winners =
            <<[agentId |-> t.seats[winner].agent.id, amount |-> t.currentHand.pot,
               handName |-> "Last player standing"]>>,
        !.currentHand.pot = 0])

showdownOf(t, playersInHand, deck) ==
    IF Len(playersInHand) = 1 THEN awardLastPlayer(t, playersInHand[1])
    ELSE showdownPots(t, playersInHand, calculateSidePots(t), deck)

doShowdown(t, deck) ==
    showdownOf([t EXCEPT !.currentHand.phase = "showdown"],
               getPlayersStillInHand(t), deck)

RECURSIVE advancePhase(_, _)

\* nextStreet that stops at the new street whoever can act
nextStreetNoSkip(t, runOut, deck) ==
    [t EXCEPT !.currentHand.activePlayerOrder = buildPostflopOrder(t),
              !.currentHand.currentPlayerIndex = 0]

\* After the switch dealt the next street: the new betting order, and on when
\* nobody is left to bet.  runOut: playersCanAct.length <= 1 &&
\* playersInHand.length > 1, counted before the switch.
nextStreet(t, runOut, deck) ==
    IF runOut \/ Len(buildPostflopOrder(t)) = 0
    THEN advancePhase([t EXCEPT !.currentHand.activePlayerOrder = buildPostflopOrder(t),
                                !.currentHand.currentPlayerIndex = 0], deck)
    ELSE [t EXCEPT !.currentHand.activePlayerOrder = buildPostflopOrder(t),
                   !.currentHand.currentPlayerIndex = 0]

\* switch (hand.phase), on the table whose bets were reset
dealStreet(t, phase, deck) ==
    IF phase = "river" THEN doShowdown(t, deck)
    ELSE IF phase \notin {"preflop", "flop", "turn"} THEN t
    ELSE nextStreet(
             [t EXCEPT
                !.currentHand.phase =
                    IF phase = "preflop" THEN "flop"
                    ELSE IF phase = "flop" THEN "turn" ELSE "river",
                !.currentHand.currentBettingRound =
                    IF phase = "preflop" THEN "flop"
                    ELSE IF phase = "flop" THEN "turn" ELSE "river",
                !.currentHand.communityCards = @ + (IF phase = "preflop" THEN 3 ELSE 1)],
             Len(getPlayersWhoCanAct(t)) <= 1 /\ Len(getPlayersStillInHand(t)) > 1,
             deck)

advancePhase(t, deck) ==
    dealStreet([t EXCEPT
                  !.seats = [n \in SeatNums |->
                               [t.seats[n] EXCEPT !.currentBet = 0, !.hasActed = FALSE]],
                  !.currentHand.currentBet = 0,
                  !.currentHand.minRaise = BigBlind],
               t.currentHand.phase, deck)

advanceAction(t, deck) ==
    IF \E i \in 1 .. Len(t.currentHand.activePlayerOrder) :
          LET s == t.seats[t.currentHand.activePlayerOrder[i]]
          IN ~s.hasFolded /\ ~s.isAllIn /\ ~s.hasActed
    THEN [t EXCEPT !.currentHand.currentPlayerIndex =
             \* activePlayerOrder.indexOf(canAct[0])
             IndexOf(t.currentHand.activePlayerOrder,
                     SelectSeq(t.currentHand.activePlayerOrder, LAMBDA sn :
                         ~t.seats[sn].hasFolded /\ ~t.seats[sn].isAllIn
                         /\ ~t.seats[sn].hasActed)[1]) - 1]
    ELSE advancePhase(t, deck)

resetActedForNewBet(t, raiserSeat) ==
    [t EXCEPT !.seats = [n \in SeatNums |->
        IF InSeq(n, t.currentHand.activePlayerOrder) /\ n # raiserSeat
        THEN [t.seats[n] EXCEPT !.hasActed = FALSE]
        ELSE t.seats[n]]]

\* "Check if only one player remains", else advanceAction
settleOrAdvance(t, playersInHand, deck) ==
    IF Len(playersInHand) = 1 THEN awardLastPlayer(t, playersInHand[1])
    ELSE advanceAction(t, deck)

\* "Record action": t is the table after the switch.
recorded(t, seatNumber, action) ==
        [t EXCEPT
           !.currentHand.actions =
               Append(@, [agentId |-> t.seats[seatNumber].agent.id,
                          seatNumber |-> seatNumber,
                          action |-> IF t.seats[seatNumber].isAllIn /\ action # "fold"
                                     THEN "all-in" ELSE action,
                          amount |-> t.seats[seatNumber].currentBet,
                          round |-> t.currentHand.currentBettingRound]),
           !.currentHand.elapsed = 0,
           !.seats[seatNumber].hasActed = TRUE]

\* processAction from "Check if hand is over" on
recordAction(t, seatNumber, action, deck) ==
    settleOrAdvance(recorded(t, seatNumber, action), getPlayersStillInHand(t), deck)

\* applyRaise taking the chips before it checks the size of the raise
applyRaiseChipsFirst(t, seatNumber, hand, seat, raiseToAmount) ==
    IF raiseToAmount - seat.currentBet <= 0 THEN [ok |-> FALSE, t |-> t]
    ELSE [ok |-> ~(raiseToAmount < hand.currentBet + hand.minRaise
                   /\ raiseToAmount < seat.currentBet + seat.stack),
          t |-> resetActedForNewBet([t EXCEPT
                   !.seats[seatNumber].stack = @ - (raiseToAmount - seat.currentBet),
                   !.currentHand.pot = @ + (raiseToAmount - seat.currentBet),
                   !.currentHand.minRaise =
                       IF raiseToAmount - hand.currentBet > hand.minRaise
                       THEN raiseToAmount - hand.currentBet ELSE @,
                   !.currentHand.currentBet = raiseToAmount,
                   !.seats[seatNumber].currentBet = raiseToAmount,
                   !.seats[seatNumber].isAllIn =
                       (seat.stack - (raiseToAmount - seat.currentBet) = 0)],
                 seatNumber)]

\* case 'raise'
applyRaise(t, seatNumber, hand, seat, raiseToAmount) ==
    IF raiseToAmount - seat.currentBet <= 0 THEN [ok |-> FALSE, t |-> t]
    ELSE IF raiseToAmount < hand.currentBet + hand.minRaise
            /\ raiseToAmount < seat.currentBet + seat.stack THEN [ok |-> FALSE, t |-> t]
    ELSE [ok |-> TRUE,
          t |-> resetActedForNewBet([t EXCEPT
                   !.seats[seatNumber].stack = @ - (raiseToAmount - seat.currentBet),
                   !.currentHand.pot = @ + (raiseToAmount - seat.currentBet),
                   !.currentHand.minRaise =
                       IF raiseToAmount - hand.currentBet > hand.minRaise
                       THEN raiseToAmount - hand.currentBet ELSE @,
                   !.currentHand.currentBet = raiseToAmount,
                   !.seats[seatNumber].currentBet = raiseToAmount,
                   !.seats[seatNumber].isAllIn =
                       (seat.stack - (raiseToAmount - seat.currentBet) = 0)],
                 seatNumber)]

\* case 'bet' after the preflop redirection
applyBet(t, seatNumber, seat, betAmount, actualBet) ==
    IF betAmount < BigBlind /\ betAmount < seat.stack THEN [ok |-> FALSE, t |-> t]
    ELSE [ok |-> TRUE,
          t |-> resetActedForNewBet([t EXCEPT
                   !.seats[seatNumber].stack = @ - actualBet,
                   !.seats[seatNumber].currentBet = @ + actualBet,
                   !.currentHand.pot = @ + actualBet,
                   !.currentHand.currentBet = seat.currentBet + actualBet,
                   !.currentHand.minRaise = actualBet,
                   !.seats[seatNumber].isAllIn = (seat.stack - actualBet = 0)],
                 seatNumber)]

\* case 'all-in'
applyAllIn(t, seatNumber, hand, seat, newBet) ==
    [ok |-> TRUE,
     t |-> [(IF newBet > hand.currentBet
             THEN resetActedForNewBet([t EXCEPT
                    !.seats[seatNumber].stack = 0,
                    !.seats[seatNumber].isAllIn = TRUE,
                    !.currentHand.pot = @ + seat.stack,
                    !.currentHand.minRaise =
                        IF newBet - hand.currentBet >= hand.minRaise
                        THEN newBet - hand.currentBet ELSE @,
                    !.currentHand.currentBet = newBet],
                  seatNumber)
             ELSE [t EXCEPT
                    !.seats[seatNumber].stack = 0,
                    !.seats[seatNumber].isAllIn = TRUE,
                    !.currentHand.pot = @ + seat.stack])
            EXCEPT !.seats[seatNumber].currentBet = newBet]]

\* case 'call'
applyCall(t, seatNumber, seat, callAmount) ==
    [ok |-> TRUE,
     t |-> [t EXCEPT
              !.seats[seatNumber].stack = @ - callAmount,
              !.seats[seatNumber].currentBet = @ + callAmount,
              !.currentHand.pot = @ + callAmount,
              !.seats[seatNumber].isAllIn = (seat.stack - callAmount = 0)]]

\* switch (action): whether the action is accepted, the table after it, and
\* the action it is recorded as ('bet' preflop is processed as 'raise')
applyAction(t, seatNumber, hand, seat, action, amount) ==
    CASE action = "fold" ->
            [ok |-> TRUE, t |-> [t EXCEPT !.seats[seatNumber].hasFolded = TRUE]]
      [] action = "check" ->
            [ok |-> hand.currentBet - seat.currentBet <= 0, t |-> t]
      [] action = "call" ->
            applyCall(t, seatNumber, seat, Min(hand.currentBet - seat.currentBet, seat.stack))
      [] action = "bet" /\ hand.currentBettingRound # "preflop" ->
            IF hand.currentBet > 0 THEN [ok |-> FALSE, t |-> t]
            ELSE applyBet(t, seatNumber, seat,
                          IF amount = Null THEN BigBlind ELSE amount,
                          Min(IF amount = Null THEN BigBlind ELSE amount, seat.stack))
      [] action = "raise" \/ (action = "bet" /\ hand.currentBettingRound = "preflop") ->
            applyRaise(t, seatNumber, hand, seat,
                       Min(IF amount = Null THEN hand.currentBet + hand.minRaise ELSE amount,
                           seat.currentBet + seat.stack))
      [] action = "all-in" ->
            applyAllIn(t, seatNumber, hand, seat, seat.currentBet + seat.stack)
      [] OTHER -> [ok |-> FALSE, t |-> t]

\* the action an accepted action is recorded under
recordedAs(hand, action) ==
    IF action = "bet" /\ hand.currentBettingRound = "preflop" THEN "raise" ELSE action

\* return false leaves the table as the switch left it
afterSwitch(r, seatNumber, action, deck) ==
    IF r.ok THEN [ok |-> TRUE, t |-> recordAction(r.t, seatNumber, action, deck)]
    ELSE [ok |-> FALSE, t |-> r.t]

\* processAction without the check of whose turn it is
processActionAnySeat(t, seatNumber, action, amount, deck) ==
    IF t.currentHand = NoHand THEN [ok |-> FALSE, t |-> t]
    ELSE IF t.seats[seatNumber].agent = NoAgent \/ t.seats[seatNumber].hasFolded
            \/ t.seats[seatNumber].isAllIn THEN [ok |-> FALSE, t |-> t]
    ELSE afterSwitch(
             applyAction(t, seatNumber, t.currentHand, t.seats[seatNumber], action, amount),
             seatNumber, recordedAs(t.currentHand, action), deck)

processAction(t, seatNumber, action, amount, deck) ==
    IF getCurrentTurnSeat(t.currentHand) # seatNumber THEN [ok |-> FALSE, t |-> t]
    ELSE IF t.seats[seatNumber].agent = NoAgent \/ t.seats[seatNumber].hasFolded
            \/ t.seats[seatNumber].isAllIn THEN [ok |-> FALSE, t |-> t]
    ELSE afterSwitch(
             applyAction(t, seatNumber, t.currentHand, t.seats[seatNumber], action, amount),
             seatNumber, recordedAs(t.currentHand, action), deck)

\* The dealer of the next hand.
nextDealer(t) ==
    IF t.currentHand = NoHand /\ Len(t.handHistory) = 0 THEN getActiveSeats(t)[1]
    ELSE IF getNextActiveSeat(t, IF t.currentHand # NoHand
                                 THEN t.currentHand.dealerSeatNumber
                                 ELSE Last(t.handHistory).dealerSeatNumber) = Null
         THEN getActiveSeats(t)[1]
         ELSE getNextActiveSeat(t, IF t.currentHand # NoHand
                                   THEN t.currentHand.dealerSeatNumber
                                   ELSE Last(t.handHistory).dealerSeatNumber)

\* "Reset seats for new hand", "Deal hole cards to active seats"
dealHoleCards(t, activeSeats) ==
    [t EXCEPT !.seats = [n \in SeatNums |->
        [t.seats[n] EXCEPT !.holeCards = IF InSeq(n, activeSeats) THEN 2 ELSE 0,
                           !.currentBet = 0, !.hasActed = FALSE,
                           !.hasFolded = FALSE, !.isAllIn = FALSE]]]

\* postBlind that takes the whole blind from the seat
postBlindFull(t, seatNumber, blind) ==
    [t EXCEPT !.seats[seatNumber].stack = @ - blind,
              !.seats[seatNumber].currentBet = blind,
              !.seats[seatNumber].isAllIn =
                  IF t.seats[seatNumber].stack - blind <= 0 THEN TRUE ELSE @]

\* "Post blinds", one blind
postBlind(t, seatNumber, blind) ==
    [t EXCEPT !.seats[seatNumber].stack = @ - Min(blind, t.seats[seatNumber].stack),
              !.seats[seatNumber].currentBet = Min(blind, t.seats[seatNumber].stack),
              !.seats[seatNumber].isAllIn =
                  IF t.seats[seatNumber].stack - Min(blind, t.seats[seatNumber].stack) = 0
                  THEN TRUE ELSE @]

blindAction(t, seatNumber, blind) ==
    [agentId |-> t.seats[seatNumber].agent.id, seatNumber |-> seatNumber,
     action |-> IF t.seats[seatNumber].currentBet < blind THEN "all-in" ELSE "bet",
     amount |-> t.seats[seatNumber].currentBet, round |-> "preflop"]

\* const hand: HandState = {...}; table.currentHand = hand, on the table
\* whose blinds are posted
openHand(t, dealerSeat, sbSeat, bbSeat) ==
    [t EXCEPT !.currentHand =
        [handNumber |-> t.handCount,
         phase |-> "preflop",
         communityCards |-> 0,
         pot |-> t.seats[sbSeat].currentBet + t.seats[bbSeat].currentBet,
         actions |-> <<blindAction(t, sbSeat, SmallBlind), blindAction(t, bbSeat, BigBlind)>>,
         currentBettingRound |-> "preflop",
         currentPlayerIndex |-> 0,
         activePlayerOrder |-> buildBettingOrder(t, bbSeat),
         dealerSeatNumber |-> dealerSeat,
         smallBlindSeatNumber |-> sbSeat,
         bigBlindSeatNumber |-> bbSeat,
         currentBet |-> t.seats[bbSeat].currentBet,
         minRaise |-> BigBlind,
         winners |-> <<>>,
         elapsed |-> 0,
         potAtShowdown |-> Null,
         potsAtShowdown |-> Null,
         showdown |-> NoShowdown]]

skipToShowdown(t, deck) ==
    doShowdown([t EXCEPT !.currentHand.communityCards = 5,
                         !.currentHand.phase = "river",
                         !.currentHand.currentBettingRound = "river"], deck)

\* "If only one player can act (others are all-in), skip to showdown"
startedHand(t, deck) ==
    IF Len(getPlayersWhoCanAct(t)) <= 1 THEN skipToShowdown(t, deck) ELSE t

startHandAt(t, activeSeats, dealerSeat, sbSeat, bbSeat, deck) ==
    startedHand(
        openHand(postBlind(postBlind(dealHoleCards([t EXCEPT !.handCount = @ + 1],
                                                   activeSeats),
                                     sbSeat, SmallBlind),
                           bbSeat, BigBlind),
                 dealerSeat, sbSeat, bbSeat),
        deck)

\* blindSeats with the blinds to the left of the dealer whatever the number of players
blindSeatsRing(t, headsUp, dealerSeat, nextSeat, deck) ==
    startHandAt(t, getActiveSeats(t), dealerSeat, nextSeat,
                getNextActiveSeat(t, nextSeat), deck)

\* Heads-up the dealer is the small blind.
blindSeats(t, headsUp, dealerSeat, nextSeat, deck) ==
    IF headsUp
    THEN startHandAt(t, getActiveSeats(t), dealerSeat, dealerSeat, nextSeat, deck)
    ELSE startHandAt(t, getActiveSeats(t), dealerSeat, nextSeat,
                     getNextActiveSeat(t, nextSeat), deck)

startHandFrom(t, dealerSeat, deck) ==
    blindSeats(t, Len(getActiveSeats(t)) = 2, dealerSeat,
               getNextActiveSeat(t, dealerSeat), deck)

startHand(t, deck) == startHandFrom(t, nextDealer(t), deck)

\* ------------------------------------------------------------ bot policy
\* makeBotDecision: the decisions a strategy can return for some hole cards
\* and some Math.random() draws.  floor(pot * 0.66) etc. in integers.
myRaisesThisRound(seat, hand) ==
    Len(SelectSeq(hand.actions, LAMBDA a :
        a.agentId = seat.agent.id /\ a.round = hand.currentBettingRound
        /\ a.action \in {"raise", "bet"}))

fishDecision(seat, hand) ==
    LET toCall == hand.currentBet - seat.currentBet
    IN IF toCall = 0
       THEN {[action |-> "bet", amount |-> BigBlind], [action |-> "check", amount |-> Null]}
       ELSE (IF toCall > BigBlind * 2 THEN {[action |-> "fold", amount |-> Null]} ELSE {})
            \cup {[action |-> "raise", amount |-> hand.currentBet + hand.minRaise],
                  [action |-> "call", amount |-> Null]}

tagDecision(seat, hand) ==
    LET toCall == hand.currentBet - seat.currentBet
    IN IF toCall = 0
       THEN {[action |-> "bet", amount |-> Max(BigBlind, (hand.pot * 66) \div 100)],
             [action |-> "bet", amount |-> BigBlind],
             [action |-> "check", amount |-> Null]}
       ELSE {[action |-> "fold", amount |-> Null],
             [action |-> "raise",
              amount |-> hand.currentBet + Max(hand.minRaise, (hand.pot * 3) \div 4)],
             [action |-> "call", amount |-> Null]}

lagDecision(seat, hand) ==
    LET toCall == hand.currentBet - seat.currentBet
    IN IF toCall = 0
       THEN {[action |-> "bet", amount |-> Max(BigBlind, k)] :
                  k \in (hand.pot \div 2) .. Max(hand.pot \div 2, hand.pot - 1)}
            \cup {[action |-> "check", amount |-> Null]}
       ELSE (IF toCall > BigBlind * 4 THEN {[action |-> "fold", amount |-> Null]} ELSE {})
            \cup (IF myRaisesThisRound(seat, hand) < 2
                  THEN {[action |-> "raise",
                         amount |-> hand.currentBet + Max(hand.minRaise, (hand.pot * 4) \div 5)]}
                  ELSE {})
            \cup {[action |-> "call", amount |-> Null], [action |-> "fold", amount |-> Null]}

makeBotDecision(strategy, seat, hand) ==
    CASE strategy = "house_fish" -> fishDecision(seat, hand)
      [] strategy = "house_tag" -> tagDecision(seat, hand)
      [] strategy = "house_lag" -> lagDecision(seat, hand)
      [] OTHER -> {[action |-> "fold", amount |-> Null]}

\* ----------------------------------------------------------- game manager
isTableBotOnly(t) ==
    LET occupied == getOccupiedSeats(t)
    IN Len(occupied) > 0
       /\ \A i \in 1 .. Len(occupied) : t.seats[occupied[i]].agent.type # "human"

\* One pass of processTable.  decision is what makeBotDecision returns when
\* the pass asks it, deck the order of the deck the hand was dealt from.  A
\* bot-only table runs the pass again at once (depth + 1, at most
\* MAX_BOT_ACTIONS_PER_TICK times); that next pass is the next Tick step.
\* The bot's branch: its decision, the fallback when that is rejected, the
\* forced fold when the fallback is rejected too.
forceFold(r2, currentSeat) ==
    IF r2.ok THEN r2.t
    ELSE [r2.t EXCEPT !.seats[currentSeat].hasFolded = TRUE,
                      !.seats[currentSeat].hasActed = TRUE,
                      !.currentHand.elapsed = 0]

botTurn(r1, currentSeat, fallback, deck) ==
    IF r1.ok THEN r1.t
    ELSE forceFold(processAction(r1.t, currentSeat, fallback, Null, deck), currentSeat)

\* takeTurn acting for a human without waiting for the timeout
takeTurnEarly(t, currentSeat, seat, hand, fallback, botOnly, decision, deck) ==
    IF seat.agent = NoAgent THEN t
    ELSE IF seat.agent.type # "human"
    THEN IF hand.elapsed >= (IF botOnly THEN BOT_ONLY_DELAY_MS ELSE BOT_DELAY_MS)
         THEN botTurn(processAction(t, currentSeat, decision.action, decision.amount, deck),
                      currentSeat, fallback, deck)
         ELSE t
    ELSE processAction(t, currentSeat, fallback, Null, deck).t

takeTurn(t, currentSeat, seat, hand, fallback, botOnly, decision, deck) ==
    IF seat.agent = NoAgent THEN t
    ELSE IF seat.agent.type # "human"
    THEN IF hand.elapsed >= (IF botOnly THEN BOT_ONLY_DELAY_MS ELSE BOT_DELAY_MS)
         THEN botTurn(processAction(t, currentSeat, decision.action, decision.amount, deck),
                      currentSeat, fallback, deck)
         ELSE t
    ELSE IF hand.elapsed >= TURN_TIMEOUT_MS
         THEN processAction(t, currentSeat, fallback, Null, deck).t
         ELSE t

turnOf(t, currentSeat, decision, deck) ==
    IF currentSeat = Null THEN t
    ELSE takeTurn(t, currentSeat, t.seats[currentSeat], t.currentHand,
                  IF t.currentHand.currentBet - t.seats[currentSeat].currentBet > 0
                  THEN "fold" ELSE "check",
                  isTableBotOnly(t), decision, deck)

processTable(t, decision, deck) ==
    IF t.currentHand = NoHand
    THEN IF Len(getActiveSeats(t)) >= 2 THEN startHand(t, deck) ELSE t
    ELSE IF t.currentHand.phase = "complete" THEN t
    ELSE IF t.currentHand.phase = "showdown" THEN t
    ELSE turnOf(t, getCurrentTurnSeat(t.currentHand), decision, deck)

sitAgent(t, seatNumber, buyInAmount, walletAddress, n) ==
    LET agent == [id |-> HumanId(n), type |-> "human", walletAddress |-> walletAddress]
        r == seatAgent(t, seatNumber, agent, buyInAmount)
    IN [success |-> r.ok, t |-> r.t, agent |-> agent]

addBot(t, strategy, n) ==
    LET empty == {k \in SeatNums : t.seats[k].agent = NoAgent}
        emptySeat == CHOOSE k \in empty : \A j \in empty : k <= j
        agent == [id |-> BotId(strategy, n), type |-> strategy, walletAddress |-> NoWallet]
    IN IF empty = {} THEN [success |-> FALSE, t |-> t]
       ELSE [success |-> TRUE, t |-> seatAgent(t, emptySeat, agent, MaxBuyIn).t]

\* table.seats.find(s => s.agent?.id === agentId): the seat number, or Null
findSeat(t, agentId) ==
    LET hits == {k \in SeatNums : t.seats[k].agent # NoAgent /\ t.seats[k].agent.id = agentId}
    IN IF hits = {} THEN Null ELSE CHOOSE k \in hits : \A j \in hits : k <= j

standAgent(t, agentId) ==
    LET sn == findSeat(t, agentId)
    IN IF sn = Null THEN [success |-> FALSE, t |-> t]
       ELSE [success |-> TRUE, t |-> [t EXCEPT !.seats[sn].isSittingOut = TRUE]]

resumeAgent(t, agentId) ==
    LET sn == findSeat(t, agentId)
    IN IF sn = Null THEN [success |-> FALSE, t |-> t]
       ELSE [success |-> TRUE, t |-> [t EXCEPT !.seats[sn].isSittingOut = FALSE]]

\* leaveAgent reporting the seat's buy-in as the cash-out
leaveAgentBuyIn(t, agentId) ==
    LET sn == findSeat(t, agentId)
    IN IF sn = Null
       THEN [success |-> FALSE, t |-> t, cashOut |-> 0, walletAddress |-> NoWallet]
       ELSE [success |-> TRUE, t |-> removeAgent(t, sn),
             cashOut |-> t.seats[sn].buyIn,
             walletAddress |-> t.seats[sn].agent.walletAddress]

leaveAgent(t, agentId) ==
    LET sn == findSeat(t, agentId)
    IN IF sn = Null
       THEN [success |-> FALSE, t |-> t, cashOut |-> 0, walletAddress |-> NoWallet]
       ELSE [success |-> TRUE, t |-> removeAgent(t, sn),
             cashOut |-> t.seats[sn].stack,
             walletAddress |-> t.seats[sn].agent.walletAddress]

rebuyAgent(t, agentId, amount) ==
    LET sn == findSeat(t, agentId)
    IN IF sn = Null THEN [success |-> FALSE, t |-> t]
       ELSE IF t.currentHand # NoHand /\ t.currentHand.phase # "complete"
               /\ ~t.seats[sn].hasFolded /\ ~t.seats[sn].isSittingOut
            THEN [success |-> FALSE, t |-> t]
       ELSE IF t.seats[sn].stack + amount > MaxBuyIn THEN [success |-> FALSE, t |-> t]
       ELSE [success |-> TRUE,
             t |-> [t EXCEPT !.seats[sn].stack = @ + amount, !.seats[sn].buyIn = @ + amount]]

\* The seat as a table view renders it, with the hole cards the view shows.
seatView(s, holeCards) ==
    [seatNumber |-> s.seatNumber,
     agent |-> IF s.agent = NoAgent THEN NoAgent ELSE [id |-> s.agent.id, type |-> s.agent.type],
     stack |-> s.stack, holeCards |-> holeCards, isSittingOut |-> s.isSittingOut,
     currentBet |-> s.currentBet, hasFolded |-> s.hasFolded, isAllIn |-> s.isAllIn]

\* The hand as the views render it.
handView(hand) ==
    IF hand = NoHand THEN NoHand
    ELSE [handNumber |-> hand.handNumber, phase |-> hand.phase,
          communityCards |-> hand.communityCards, pot |-> hand.pot,
          actions |-> hand.actions, currentTurnSeat |-> getCurrentTurnSeat(hand),
          dealerSeatNumber |-> hand.dealerSeatNumber, currentBet |-> hand.currentBet,
          winners |-> hand.winners]

\* GET /api/agent/tables/[id]/state?agentId=: the seats of the agent's view
agentStateView(t, agentId) ==
    LET isShowdown == t.currentHand # NoHand /\ t.currentHand.phase = "showdown"
    IN [seats |-> [n \in SeatNums |->
                     LET s == t.seats[n]
                     IN seatView(s, IF s.agent # NoAgent /\ s.agent.id = agentId
                                    THEN s.holeCards
                                    ELSE IF isShowdown /\ ~s.hasFolded THEN s.holeCards
                                    ELSE Null)],
        currentHand |-> handView(t.currentHand)]

\* GET /api/tables/[id]: the view every caller gets
getTableView(t) ==
    [seats |-> [n \in SeatNums |-> seatView(t.seats[n], t.seats[n].holeCards)],
     currentHand |-> handView(t.currentHand),
     handCount |-> t.handCount]

\* tableKnown: whether tableId names a table of the manager
submitAction(t, tableKnown, agentId, action, amount, deck) ==
    LET sn == findSeat(t, agentId)
    IN IF ~tableKnown THEN [success |-> FALSE, error |-> "Table not found", t |-> t]
       ELSE IF t.currentHand = NoHand
            THEN [success |-> FALSE, error |-> "No active hand", t |-> t]
       ELSE IF sn = Null
            THEN [success |-> FALSE, error |-> "Agent not at this table", t |-> t]
       ELSE IF action \notin ActionTypes
            THEN [success |-> FALSE, error |-> "Invalid action", t |-> t]
       ELSE LET r == processAction(t, sn, action, amount, deck)
            IN IF ~r.ok THEN [success |-> FALSE, error |-> "Action not allowed", t |-> r.t]
               ELSE [success |-> TRUE, error |-> "", t |-> r.t]

\* ------------------------------------------------------------ the escrow
\* Convert an integer chip amount to 6-decimal token units.
chipsToTokenUnits(chips) == chips * 1000000

\* The buy-in limits the escrow table was created with, in token units.
EscrowTable ==
    [minBuyIn |-> chipsToTokenUnits(MinBuyIn), maxBuyIn |-> chipsToTokenUnits(MaxBuyIn)]

\* PokerEscrow.deposit by player; funded: token.transferFrom succeeds.  A
\* revert leaves the contract as it was.
deposit(e, v, player, amount, funded) ==
    IF amount = 0 \/ amount < EscrowTable.minBuyIn \/ amount > EscrowTable.maxBuyIn
       \/ e[player].isSeated \/ ~funded
    THEN [ok |-> FALSE, escrow |-> e, vault |-> v]
    ELSE [ok |-> TRUE,
          escrow |-> [e EXCEPT ![player] = [balance |-> amount, isSeated |-> TRUE]],
          vault |-> v + amount]

\* PokerEscrow.rebuy by player
rebuy(e, v, player, amount, funded) ==
    IF amount = 0 \/ ~e[player].isSeated
       \/ e[player].balance + amount > EscrowTable.maxBuyIn \/ ~funded
    THEN [ok |-> FALSE, escrow |-> e, vault |-> v]
    ELSE [ok |-> TRUE,
          escrow |-> [e EXCEPT ![player].balance = @ + amount],
          vault |-> v + amount]

\* PokerEscrow.settleAndWithdraw by the owner (_settle)
settleAndWithdraw(e, v, player, finalStack) ==
    IF ~e[player].isSeated \/ finalStack > v
    THEN [ok |-> FALSE, escrow |-> e, vault |-> v]
    ELSE [ok |-> TRUE,
          escrow |-> [e EXCEPT ![player] = [balance |-> 0, isSeated |-> FALSE]],
          vault |-> v - finalStack]

\* escrow-client: the server's settlement of finalStackChips chips
settlePlayer(e, v, playerWallet, finalStackChips) ==
    settleAndWithdraw(e, v, playerWallet, chipsToTokenUnits(finalStackChips))

\* escrow-client: approve and deposit from the agent's embedded wallet
approveAndDepositForAgent(e, v, walletAddress, buyInChips, funded) ==
    deposit(e, v, walletAddress, chipsToTokenUnits(buyInChips), funded)

\* ---------------------------------------------------------------- state
\* ------------------------------------------------- the PokerEscrow contract
\* The contract with one table id and its token.  c.held is
\* token.balanceOf(address(this)), c.wallet the token balances of the players.
\* A call that reverts returns the contract as it was, with ok = FALSE.
Owner == "owner"
Callers == Wallets \cup {Owner}

\* What each player's wallet holds when the contract is deployed.
WalletTokens == chipsToTokenUnits(MaxBuyIn + 1)

\* After the constructor: no table, no tokens held.
Deployed ==
    [exists |-> FALSE,
     players |-> [w \in Wallets |-> [balance |-> 0, totalDeposited |-> 0, isSeated |-> FALSE]],
     playerList |-> <<>>,
     held |-> 0,
     wallet |-> [w \in Wallets |-> WalletTokens]]

reverted(c) == [ok |-> FALSE, c |-> c]

\* createTable(tableId, minBuyIn, maxBuyIn) onlyOwner, with the limits of EscrowTable
contractCreateTable(c, caller) ==
    IF caller # Owner \/ c.exists THEN reverted(c)
    ELSE [ok |-> TRUE, c |-> [c EXCEPT !.exists = TRUE]]

\* token.transferFrom(player, address(this), amount) with the allowance given
pullTokens(c, player, amount) ==
    [c EXCEPT !.wallet[player] = @ - amount, !.held = @ + amount]

\* token.transfer(player, amount) by the contract
pushTokens(c, player, amount) ==
    [c EXCEPT !.wallet[player] = @ + amount, !.held = @ - amount]

\* deposit(tableId, amount) by player
contractDeposit(c, tableKnown, player, amount) ==
    IF ~tableKnown \/ ~c.exists \/ amount = 0
       \/ amount < EscrowTable.minBuyIn \/ amount > EscrowTable.maxBuyIn
       \/ c.players[player].isSeated
       \/ c.wallet[player] < amount
    THEN reverted(c)
    ELSE [ok |-> TRUE,
          c |-> [pullTokens(c, player, amount) EXCEPT
                    !.players[player] = [balance |-> amount, totalDeposited |-> amount,
                                         isSeated |-> TRUE],
                    !.playerList = Append(@, player)]]

\* rebuy(tableId, amount) by player
contractRebuy(c, tableKnown, player, amount) ==
    IF ~tableKnown \/ ~c.exists \/ amount = 0 \/ ~c.players[player].isSeated
       \/ c.players[player].balance + amount > EscrowTable.maxBuyIn
       \/ c.wallet[player] < amount
    THEN reverted(c)
    ELSE [ok |-> TRUE,
          c |-> [pullTokens(c, player, amount) EXCEPT
                    !.players[player].balance = @ + amount,
                    !.players[player].totalDeposited = @ + amount]]

\* _removeFromPlayerList popping the last entry without the swap
removeLastFromPlayerList(list, player) ==
    IF ~InSeq(player, list) THEN list ELSE SubSeq(list, 1, Len(list) - 1)

\* _removeFromPlayerList: swap-and-pop of the first entry equal to player
removeFromPlayerList(list, player) ==
    IF ~InSeq(player, list) THEN list
    ELSE LET i == IndexOf(list, player)
             swapped == [list EXCEPT ![i] = list[Len(list)]]
         IN SubSeq(swapped, 1, Len(list) - 1)

\* _settle leaving the player in the table's player list
settleKeepListed(c, tableKnown, player, finalStack) ==
    IF ~tableKnown \/ ~c.exists THEN reverted(c)
    ELSE IF ~c.players[player].isSeated THEN reverted(c)
    ELSE IF finalStack > c.held THEN reverted(c)
    ELSE [ok |-> TRUE,
          c |-> [pushTokens(c, player, finalStack) EXCEPT
                    !.players[player].balance = 0,
                    !.players[player].isSeated = FALSE]]

\* _settle(tableId, player, finalStack)
settle(c, tableKnown, player, finalStack) ==
    IF ~tableKnown \/ ~c.exists THEN reverted(c)
    ELSE IF ~c.players[player].isSeated THEN reverted(c)
    ELSE IF finalStack > c.held THEN reverted(c)
    ELSE [ok |-> TRUE,
          c |-> [pushTokens(c, player, finalStack) EXCEPT
                    !.players[player].balance = 0,
                    !.players[player].isSeated = FALSE,
                    !.playerList = removeFromPlayerList(@, player)]]

\* settleAndWithdraw(tableId, player, finalStack) onlyOwner
contractSettleAndWithdraw(c, caller, tableKnown, player, finalStack) ==
    IF caller # Owner THEN reverted(c) ELSE settle(c, tableKnown, player, finalStack)

\* batchSettle(tableId, players, finalStacks) onlyOwner: _settle for each
\* entry; one revert reverts the whole call.
batchSettle(c, caller, tableKnown, players, finalStacks) ==
    LET B[i \in 0 .. Len(players)] ==
            IF i = 0 THEN [ok |-> TRUE, c |-> c]
            ELSE IF ~B[i - 1].ok THEN B[i - 1]
            ELSE settle(B[i - 1].c, tableKnown, players[i], finalStacks[i])
    IN IF caller # Owner \/ Len(players) # Len(finalStacks) THEN reverted(c)
       ELSE IF ~B[Len(players)].ok THEN reverted(c)
       ELSE B[Len(players)]

\* The loop of emergencyRefund over playerList: the contract after the first
\* i entries; ok turns FALSE once token.transfer has failed for want of
\* tokens (the mock token requires balanceOf[msg.sender] >= amount).
refundLoop(c) ==
    LET R[i \in 0 .. Len(c.playerList)] ==
            IF i = 0 THEN [ok |-> TRUE, c |-> c]
            ELSE IF ~R[i - 1].ok THEN R[i - 1]
            ELSE LET player == c.playerList[i]
                     seat == R[i - 1].c.players[player]
                 IN IF seat.isSeated /\ seat.balance > 0
                    THEN IF seat.balance > R[i - 1].c.held THEN [ok |-> FALSE, c |-> c]
                         ELSE [ok |-> TRUE,
                               c |-> [pushTokens(R[i - 1].c, player, seat.balance) EXCEPT
                                         !.players[player].balance = 0,
                                         !.players[player].isSeated = FALSE]]
                    ELSE R[i - 1]
    IN R[Len(c.playerList)]

\* emergencyRefund(tableId) onlyOwner
emergencyRefund(c, caller, tableKnown) ==
    IF caller # Owner \/ ~tableKnown \/ ~c.exists THEN reverted(c)
    ELSE IF ~refundLoop(c).ok THEN reverted(c)
    ELSE [ok |-> TRUE, c |-> [refundLoop(c).c EXCEPT !.playerList = <<>>]]

VARIABLES
    table,          \* the TableState of the one table
    nextId,         \* agents created so far (botCounter / Date.now() of the ids)
    requests,       \* seat requests served so far
    chipsOnTable,   \* ledger: chips brought to the table minus chips cashed out
    escrow,         \* PokerEscrow.tables[tableId].players, by wallet
    vault,          \* token.balanceOf(escrow contract)
    pending,        \* agent sit requests between their deposit and their sitAgent
    sitLog,         \* what the last finished sit request did
    leaveLog,       \* the response to the last leave request
    restore,        \* restoreHandCounts: what the database holds, whether it has run
    contract        \* the PokerEscrow contract with its token: storage and balances

engineVars == <<table, nextId, requests, chipsOnTable>>
chainVars == <<escrow, vault, pending, sitLog, leaveLog>>
vars == <<table, nextId, requests, chipsOnTable, escrow, vault, pending, sitLog, leaveLog,
          restore, contract>>

SumStacks(t) == SumSeq(Array([i \in 1 .. MaxSeats |-> t.seats[i - 1].stack]))
SumBuyIn(t) == SumSeq(Array([i \in 1 .. MaxSeats |-> t.seats[i - 1].buyIn]))
Pot(t) == IF t.currentHand = NoHand THEN 0 ELSE t.currentHand.pot

\* The decks a hand can have been dealt from.  A seat without hole cards plays
\* the board, which no seat holding cards can lose to.
Decks(t) ==
    {d \in [SeatNums -> 1 .. NumStrengths] :
        \A n \in SeatNums :
            (t.currentHand # NoHand /\ t.seats[n].agent # NoAgent /\ t.seats[n].holeCards = 0)
                => \A m \in SeatNums : d[n] <= d[m]}

\* The outcomes of Op over the decks; the deck only matters to an operation
\* that ran a hand to its end.
Dealt(t, Op(_)) ==
    LET first == Op([n \in SeatNums |-> 1])
    IN IF first.handHistory # t.handHistory THEN {Op(d) : d \in Decks(t)} ELSE {first}

\* seedBots: 2 + floor(random * 2) bots on seats 0.. with the maximum buy-in
seedBots(numBots) ==
    LET strategies == <<"house_fish", "house_tag", "house_lag">>
        S[i \in 0 .. numBots] ==
            IF i = 0 THEN createTable
            ELSE LET strategy == strategies[((i - 1) % 3) + 1]
                     agent == [id |-> BotId(strategy, i), type |-> strategy,
                               walletAddress |-> NoWallet]
                 IN seatAgent(S[i - 1], i - 1, agent, MaxBuyIn).t
    IN S[numBots]

\* No leave request answered yet.
NoLeave == [success |-> FALSE, txHash |-> FALSE, settlementError |-> FALSE]

NoSit == [route |-> "none", wallet |-> NoWallet, deposited |-> FALSE,
          seated |-> FALSE, refund |-> FALSE]

\* A manager whose database holds no hand: restoreHandCounts has nothing to do.
NoRestore == [maxHandNumber |-> 0, pending |-> FALSE]

Init ==
    /\ \E numBots \in {2, 3} :
          /\ table = seedBots(numBots)
          /\ nextId = numBots
    /\ requests = 0
    /\ chipsOnTable = SumStacks(table)
    /\ escrow = [w \in Wallets |-> [balance |-> 0, isSeated |-> FALSE]]
    /\ vault = 0
    /\ pending = {}
    /\ sitLog = NoSit
    /\ leaveLog = NoLeave
    /\ restore = NoRestore
    /\ contract = Deployed

\* ------------------------------------------------------------ the ticker
\* The deadline the ticker waits for on the current turn, Null if none.
Deadline(t) ==
    LET sn == getCurrentTurnSeat(t.currentHand)
    IN IF t.currentHand = NoHand THEN Null
       ELSE IF sn = Null THEN Null
       ELSE IF t.seats[sn].agent = NoAgent THEN Null
       ELSE IF t.seats[sn].agent.type = "human" THEN TURN_TIMEOUT_MS
       ELSE IF isTableBotOnly(t) THEN BOT_ONLY_DELAY_MS ELSE BOT_DELAY_MS

\* Date.now() - hand.lastActionAt grows to the deadline of the turn.
Clock ==
    /\ Deadline(table) # Null
    /\ table.currentHand.elapsed < Deadline(table)
    /\ table' = [table EXCEPT !.currentHand.elapsed = Deadline(table)]
    /\ UNCHANGED <<nextId, requests, chipsOnTable>>
    /\ UNCHANGED <<chainVars, restore, contract>>

\* What makeBotDecision can return in this pass (a fold where it is not asked).
TickDecisions(t) ==
    LET sn == getCurrentTurnSeat(t.currentHand)
    IN IF Deadline(t) \in {BOT_ONLY_DELAY_MS, BOT_DELAY_MS}
       THEN makeBotDecision(t.seats[sn].agent.type, t.seats[sn], t.currentHand)
       ELSE {[action |-> "fold", amount |-> Null]}

\* tick(): processTable returned normally; limit bounds the hands started
TickUpTo(limit) ==
    /\ table.currentHand = NoHand => table.handCount < limit
    /\ \E decision \in TickDecisions(table) :
          \E t2 \in Dealt(table, LAMBDA d : processTable(table, decision, d)) :
              /\ table' = t2
              /\ chipsOnTable' = chipsOnTable + SumBuyIn(t2) - SumBuyIn(table)
    /\ UNCHANGED <<nextId, requests>>
    /\ UNCHANGED <<chainVars, restore, contract>>

Tick == TickUpTo(MaxHands)

\* tick() at a table that has played a hand before
TickNextHand == TickUpTo(MaxHandsBetween)

\* The catch block of tick(): current bets go back to the stacks and the hand
\* is cleared.
tickGuard(t) ==
    IF t.currentHand # NoHand /\ t.currentHand.phase # "showdown"
    THEN [t EXCEPT
            !.seats = [n \in SeatNums |->
                IF t.seats[n].agent # NoAgent /\ t.seats[n].currentBet > 0
                THEN [t.seats[n] EXCEPT !.stack = @ + t.seats[n].currentBet, !.currentBet = 0]
                ELSE t.seats[n]],
            !.currentHand = NoHand]
    ELSE t

\* tick(): processTable threw before it changed the table
TickThrows ==
    /\ table.currentHand # NoHand
    /\ table' = tickGuard(table)
    /\ UNCHANGED <<nextId, requests, chipsOnTable>>
    /\ UNCHANGED <<chainVars, restore, contract>>

\* ------------------------------------------------------ engine requests
SubmitInputs ==
    {[action |-> a, amount |-> Null] : a \in {"fold", "check", "call", "all-in", "muck"}}
    \cup {[action |-> a, amount |-> m] : a \in {"bet", "raise"}, m \in Amounts}

SeatedIds(t) == {t.seats[n].agent.id : n \in {k \in SeatNums : t.seats[k].agent # NoAgent}}
HumanIds(t) == {t.seats[n].agent.id : n \in {k \in SeatNums : t.seats[k].agent.type = "human"}}
Stranger == HumanId(8)

\* POST action: gm.submitAction(tableId, agentId, action, amount), sent for a
\* seated human or for an agent that is not at the table.
SubmitAction ==
    /\ \E tableKnown \in BOOLEAN :
          \E agentId \in (IF tableKnown THEN HumanIds(table) ELSE {}) \cup {Stranger},
             in \in (IF tableKnown THEN SubmitInputs ELSE {[action |-> "fold", amount |-> Null]}) :
              \E t2 \in Dealt(table, LAMBDA d :
                          submitAction(table, tableKnown, agentId, in.action, in.amount, d).t) :
                  /\ table' = t2
                  /\ chipsOnTable' = chipsOnTable + SumBuyIn(t2) - SumBuyIn(table)
    /\ UNCHANGED <<nextId, requests>>
    /\ UNCHANGED <<chainVars, restore, contract>>

\* POST sit without a wallet: gm.sitAgent
SitAgent ==
    /\ nextId < MaxAgents
    /\ requests < MaxRequests
    /\ \E seatNumber \in 0 .. MaxSeats, buyInAmount \in (MinBuyIn - 1) .. (MaxBuyIn + 1) :
          LET r == sitAgent(table, seatNumber, buyInAmount, NoWallet, nextId + 1)
          IN /\ table' = r.t
             /\ nextId' = IF r.success THEN nextId + 1 ELSE nextId
             /\ chipsOnTable' = chipsOnTable + SumBuyIn(r.t) - SumBuyIn(table)
    /\ requests' = requests + 1
    /\ UNCHANGED <<chainVars, restore, contract>>

\* POST add-bot: gm.addBot
AddBot ==
    /\ nextId < MaxAgents
    /\ requests < MaxRequests
    /\ \E strategy \in BotStrategies :
          LET r == addBot(table, strategy, nextId + 1)
          IN /\ table' = r.t
             /\ nextId' = IF r.success THEN nextId + 1 ELSE nextId
             /\ chipsOnTable' = chipsOnTable + SumBuyIn(r.t) - SumBuyIn(table)
    /\ requests' = requests + 1
    /\ UNCHANGED <<chainVars, restore, contract>>

\* POST stand: gm.standAgent
Stand ==
    /\ requests < MaxRequests
    /\ \E agentId \in SeatedIds(table) \cup {Stranger} :
          table' = standAgent(table, agentId).t
    /\ requests' = requests + 1
    /\ UNCHANGED <<nextId, chipsOnTable>>
    /\ UNCHANGED <<chainVars, restore, contract>>

\* gm.resumeAgent
Resume ==
    /\ requests < MaxRequests
    /\ \E agentId \in SeatedIds(table) \cup {Stranger} :
          table' = resumeAgent(table, agentId).t
    /\ requests' = requests + 1
    /\ UNCHANGED <<nextId, chipsOnTable>>
    /\ UNCHANGED <<chainVars, restore, contract>>

\* POST leave: gm.leaveAgent, then the settlement of the cash-out when the
\* agent has a wallet; a settlement that fails leaves the seat empty.
LeaveRoute(agentIds) ==
    /\ requests < MaxRequests
    /\ \E agentId \in agentIds :
          LET r == leaveAgent(table, agentId)
          IN /\ table' = r.t
             /\ chipsOnTable' = chipsOnTable - r.cashOut
             /\ IF r.success /\ r.walletAddress # NoWallet
                THEN LET tx == settlePlayer(escrow, vault, r.walletAddress, r.cashOut)
                     IN /\ escrow' = tx.escrow
                        /\ vault' = tx.vault
                        /\ leaveLog' = [success |-> TRUE, txHash |-> tx.ok,
                                        settlementError |-> ~tx.ok]
                ELSE /\ UNCHANGED <<escrow, vault>>
                     /\ leaveLog' = [success |-> r.success, txHash |-> FALSE,
                                     settlementError |-> FALSE]
    /\ requests' = requests + 1
    /\ UNCHANGED <<nextId, pending, sitLog, restore, contract>>

\* POST leave by any seated agent, or by an agent that is not at the table.
Leave == LeaveRoute(SeatedIds(table) \cup {Stranger})

\* The ids of the seated agents that have a wallet.
WalletIds(t) ==
    {t.seats[n].agent.id : n \in {m \in SeatNums : t.seats[m].agent.walletAddress # NoWallet}}

\* POST leave by a seated agent with a wallet, or by an agent not at the table.
LeaveWallet == LeaveRoute(WalletIds(table) \cup {Stranger})

\* POST rebuy: gm.rebuyAgent
Rebuy ==
    /\ requests < MaxRequests
    /\ \E agentId \in SeatedIds(table) \cup {Stranger}, amount \in 1 .. MaxBuyIn :
          LET r == rebuyAgent(table, agentId, amount)
          IN /\ table' = r.t
             /\ chipsOnTable' = chipsOnTable + SumBuyIn(r.t) - SumBuyIn(table)
    /\ requests' = requests + 1
    /\ UNCHANGED nextId
    /\ UNCHANGED <<chainVars, restore, contract>>

\* The seats and buy-ins a wallet's sit request names: a seat the bots hold,
\* the last seat, a seat index out of range; a buy-in below the minimum and
\* the two ends of the range.
SitSeats == {0, MaxSeats - 1, MaxSeats}
SitBuyIns == {MinBuyIn - 1, MinBuyIn, MaxBuyIn}

\* BuyInModal: the player's wallet deposits to the escrow.
WalletDeposit ==
    /\ requests < MaxRequests
    /\ \E w \in Wallets, chips \in SitBuyIns :
          LET tx == deposit(escrow, vault, w, chipsToTokenUnits(chips), TRUE)
          IN escrow' = tx.escrow /\ vault' = tx.vault
    /\ requests' = requests + 1
    /\ UNCHANGED <<table, nextId, chipsOnTable, pending, sitLog, leaveLog, restore, contract>>

\* BuyInModal with isRebuy: the player's wallet tops up its escrow balance.
WalletRebuy ==
    /\ requests < MaxRequests
    /\ \E w \in Wallets, chips \in 1 .. MaxBuyIn :
          LET tx == rebuy(escrow, vault, w, chipsToTokenUnits(chips), TRUE)
          IN escrow' = tx.escrow /\ vault' = tx.vault
    /\ requests' = requests + 1
    /\ UNCHANGED <<table, nextId, chipsOnTable, pending, sitLog, leaveLog, restore, contract>>

\* POST /api/tables/[id]/sit with a walletAddress: gm.sitAgent, and on its
\* rejection the refund when a depositTxHash came with the request.
SitRoute ==
    /\ nextId < MaxAgents
    /\ requests < MaxRequests
    /\ \E w \in Wallets, seatNumber \in SitSeats, buyInAmount \in SitBuyIns,
          depositTxHash \in BOOLEAN :
          LET r == sitAgent(table, seatNumber, buyInAmount, w, nextId + 1)
              tx == IF ~r.success /\ depositTxHash
                    THEN settlePlayer(escrow, vault, w, buyInAmount)
                    ELSE [ok |-> FALSE, escrow |-> escrow, vault |-> vault]
          IN /\ table' = r.t
             /\ nextId' = IF r.success THEN nextId + 1 ELSE nextId
             /\ chipsOnTable' = chipsOnTable + SumBuyIn(r.t) - SumBuyIn(table)
             /\ escrow' = tx.escrow
             /\ vault' = tx.vault
             /\ sitLog' = [route |-> "sit", wallet |-> w,
                           deposited |-> escrow[w].isSeated,
                           seated |-> r.success,
                           refund |-> ~r.success /\ depositTxHash]
    /\ requests' = requests + 1
    /\ UNCHANGED <<pending, leaveLog, restore, contract>>

\* POST /api/agent/tables/[id]/sit up to the end of approveAndDepositForAgent:
\* a failed deposit ends the request, a deposit that went through leaves the
\* request waiting for the engine.
AgentSitDeposit ==
    /\ nextId < MaxAgents
    /\ requests < MaxRequests
    /\ \E w \in Wallets, seatNumber \in SitSeats, buyInAmount \in SitBuyIns,
          funded \in BOOLEAN :
          LET tx == approveAndDepositForAgent(escrow, vault, w, buyInAmount, funded)
          IN /\ escrow' = tx.escrow
             /\ vault' = tx.vault
             /\ pending' = IF tx.ok
                           THEN pending \cup {[wallet |-> w, seatNumber |-> seatNumber,
                                               buyInAmount |-> buyInAmount]}
                           ELSE pending
             /\ sitLog' = IF tx.ok THEN sitLog
                          ELSE [route |-> "agent", wallet |-> w, deposited |-> FALSE,
                                seated |-> FALSE, refund |-> FALSE]
    /\ requests' = requests + 1
    /\ UNCHANGED <<table, nextId, chipsOnTable, leaveLog, restore, contract>>

\* The rest of POST /api/agent/tables/[id]/sit: gm.sitAgent, and on its
\* rejection the refund of the deposit.
AgentSitSeat ==
    /\ nextId < MaxAgents
    /\ \E req \in pending :
          LET r == sitAgent(table, req.seatNumber, req.buyInAmount, req.wallet, nextId + 1)
              tx == IF ~r.success
                    THEN settlePlayer(escrow, vault, req.wallet, req.buyInAmount)
                    ELSE [ok |-> FALSE, escrow |-> escrow, vault |-> vault]
          IN /\ table' = r.t
             /\ nextId' = IF r.success THEN nextId + 1 ELSE nextId
             /\ chipsOnTable' = chipsOnTable + SumBuyIn(r.t) - SumBuyIn(table)
             /\ escrow' = tx.escrow
             /\ vault' = tx.vault
             /\ pending' = pending \ {req}
             /\ sitLog' = [route |-> "agent", wallet |-> req.wallet, deposited |-> TRUE,
                           seated |-> r.success, refund |-> ~r.success]
    /\ UNCHANGED <<requests, leaveLog, restore, contract>>

\* The rest of the request in the variant of the route that leaves the
\* deposit in the escrow when the engine rejects the sit.
AgentSitSeatNoRefund ==
    /\ nextId < MaxAgents
    /\ \E req \in pending :
          LET r == sitAgent(table, req.seatNumber, req.buyInAmount, req.wallet, nextId + 1)
          IN /\ table' = r.t
             /\ nextId' = IF r.success THEN nextId + 1 ELSE nextId
             /\ chipsOnTable' = chipsOnTable + SumBuyIn(r.t) - SumBuyIn(table)
             /\ pending' = pending \ {req}
             /\ sitLog' = [route |-> "agent-variant", wallet |-> req.wallet,
                           deposited |-> TRUE, seated |-> r.success, refund |-> FALSE]
    /\ UNCHANGED <<requests, escrow, vault, leaveLog, restore, contract>>

\* A table that humans join and play at.
Next ==
    \/ Tick
    \/ Clock
    \/ SubmitAction
    \/ SitAgent

Spec == Init /\ [][Next]_vars

\* A table whose seats change hands while the ticker plays the turns.
NextSeats ==
    \/ Tick
    \/ Clock
    \/ SitAgent
    \/ AddBot
    \/ Stand
    \/ Resume
    \/ Leave
    \/ Rebuy

SpecSeats == Init /\ [][NextSeats]_vars

\* A table whose processing can throw.
NextFault ==
    \/ Tick
    \/ Clock
    \/ SitAgent
    \/ TickThrows

SpecFault == Init /\ [][NextFault]_vars

\* The ticker keeps firing and time keeps passing.
NextLive ==
    \/ Tick
    \/ Clock
    \/ SitAgent
    \/ Leave

SpecLive == Init /\ [][NextLive]_vars /\ WF_vars(Tick) /\ WF_vars(Clock)

\* A table between two hands: two bots and a human, with the stacks earlier
\* hands can have left them.  finishHand has given a bot that lost its chips
\* a new buy-in and has marked a human without chips as sitting out.
BotStacks == {1, MaxBuyIn}
HumanStacks == {0, 1, MaxBuyIn}

betweenHands(botStack0, botStack1, humanStack, lastDealer) ==
    [seedBots(2) EXCEPT
        !.seats[0].stack = botStack0,
        !.seats[1].stack = botStack1,
        !.seats[2] = [seatAgent(createTable, 2,
                                [id |-> HumanId(3), type |-> "human",
                                 walletAddress |-> NoWallet], MaxBuyIn).t.seats[2]
                        EXCEPT !.stack = humanStack, !.isSittingOut = (humanStack = 0)],
        !.handHistory = <<[handNumber |-> 1, phase |-> "complete",
                           dealerSeatNumber |-> lastDealer, pot |-> 0,
                           communityCards |-> 0, winners |-> <<>>,
                           potAtShowdown |-> Null, potsAtShowdown |-> Null,
                           showdown |-> NoShowdown]>>,
        !.handCount = 1]

InitBetween ==
    /\ \E b0 \in BotStacks, b1 \in BotStacks, h \in HumanStacks, d \in {0, 1} :
          table = betweenHands(b0, b1, h, d)
    /\ nextId = 3
    /\ requests = 0
    /\ chipsOnTable = SumStacks(table)
    /\ escrow = [w \in Wallets |-> [balance |-> 0, isSeated |-> FALSE]]
    /\ vault = 0
    /\ pending = {}
    /\ sitLog = NoSit
    /\ leaveLog = NoLeave
    /\ restore = NoRestore
    /\ contract = Deployed

NextBetween ==
    \/ TickNextHand
    \/ Clock
    \/ Resume

SpecBetween == InitBetween /\ [][NextBetween]_vars

\* Tables before their first hand and tables between two hands.
InitRotation == Init \/ InitBetween

SpecRotation == InitRotation /\ [][NextBetween]_vars

\* A table whose players hold wallets and buy in through the escrow.
NextEscrow ==
    \/ Tick
    \/ Clock
    \/ WalletDeposit
    \/ WalletRebuy
    \/ SitRoute
    \/ AgentSitDeposit
    \/ AgentSitSeat
    \/ AgentSitSeatNoRefund
    \/ Rebuy
    \/ LeaveWallet

\* The table seeded with two bots, one seat free.
InitEscrow == Init /\ nextId = 2

SpecEscrow == InitEscrow /\ [][NextEscrow]_vars

\* A restart: init() has created the table and seeded the bots, handCount is
\* 0, the database holds hands up to maxHandNumber, and restoreHandCounts
\* has been called without being awaited while the game loop starts.
InitRestart ==
    /\ \E numBots \in {2, 3} :
          /\ table = seedBots(numBots)
          /\ nextId = numBots
    /\ requests = 0
    /\ chipsOnTable = SumStacks(table)
    /\ escrow = [w \in Wallets |-> [balance |-> 0, isSeated |-> FALSE]]
    /\ vault = 0
    /\ pending = {}
    /\ sitLog = NoSit
    /\ leaveLog = NoLeave
    /\ \E maxHandNumber \in 0 .. MaxPersisted :
          restore = [maxHandNumber |-> maxHandNumber, pending |-> TRUE]
    /\ contract = Deployed

\* restoreHandCounts after its await: getMaxHandNumber has answered
RestoreHandCounts ==
    /\ restore.pending
    /\ table' = IF restore.maxHandNumber > table.handCount
                THEN [table EXCEPT !.handCount = restore.maxHandNumber]
                ELSE table
    /\ restore' = [restore EXCEPT !.pending = FALSE]
    /\ UNCHANGED <<nextId, requests, chipsOnTable, contract>>
    /\ UNCHANGED chainVars

\* tick() at a table that restarts
TickRestart == TickUpTo(MaxPersisted + MaxHands)

\* The table of bots waits for no clock (BOT_ONLY_DELAY_MS = 0).
NextRestart ==
    \/ TickRestart
    \/ RestoreHandCounts

SpecRestart == InitRestart /\ [][NextRestart]_vars

\* The escrow contract on its own: the owner and the players call it in any
\* order.  Amounts are in token units.
DepositAmounts == {chipsToTokenUnits(MinBuyIn - 1), chipsToTokenUnits(MinBuyIn),
                   chipsToTokenUnits(MaxBuyIn)}
RebuyAmounts == {0, chipsToTokenUnits(1)}
FinalStacks == {0, chipsToTokenUnits(1), chipsToTokenUnits(MaxBuyIn),
                chipsToTokenUnits(MaxBuyIn + 1)}

CreateTable ==
    /\ \E caller \in Callers : contract' = contractCreateTable(contract, caller).c
    /\ UNCHANGED <<engineVars, chainVars, restore>>

Deposit ==
    /\ \E player \in Wallets, amount \in DepositAmounts :
          contract' = contractDeposit(contract, TRUE, player, amount).c
    /\ UNCHANGED <<engineVars, chainVars, restore>>

RebuyTokens ==
    /\ \E player \in Wallets, amount \in RebuyAmounts :
          contract' = contractRebuy(contract, TRUE, player, amount).c
    /\ UNCHANGED <<engineVars, chainVars, restore>>

SettleAndWithdraw ==
    /\ \E caller \in Callers, player \in Wallets, finalStack \in FinalStacks :
          contract' = contractSettleAndWithdraw(contract, caller, TRUE, player, finalStack).c
    /\ UNCHANGED <<engineVars, chainVars, restore>>

EmergencyRefund ==
    /\ \E caller \in Callers : contract' = emergencyRefund(contract, caller, TRUE).c
    /\ UNCHANGED <<engineVars, chainVars, restore>>

\* The batches the owner settles: every player once, in either order, or the
\* same player twice.
Batches == {<<w, v>> : w \in Wallets, v \in Wallets}

BatchSettle ==
    /\ \E players \in Batches, first \in FinalStacks, second \in FinalStacks :
          contract' = batchSettle(contract, Owner, TRUE, players, <<first, second>>).c
    /\ UNCHANGED <<engineVars, chainVars, restore>>

NextContract ==
    \/ CreateTable
    \/ Deposit
    \/ RebuyTokens
    \/ SettleAndWithdraw
    \/ BatchSettle
    \/ EmergencyRefund

\* The contract deployed next to the table seeded with two bots.
InitContract == Init /\ nextId = 2

SpecContract == InitContract /\ [][NextContract]_vars

\* ------------------------------------------------------------- properties
AnyDeck == [n \in SeatNums |-> 1]
HandInProgress == table.currentHand # NoHand
LastHand == Last(table.handHistory)
SumWinners(hand) == SumSeq(Array([i \in 1 .. Len(hand.winners) |-> hand.winners[i].amount]))

\* C1: chip conservation.  The stacks of all seats plus the pot are the chips
\* that were brought to the table and not cashed out, in every state from the
\* start of a hand to the state its last accepted action leaves.
ChipConservation == SumStacks(table) + Pot(table) = chipsOnTable

\* C2: side-pot coverage.  For a hand that went to showdown with several
\* players, the side pots added up to the pot, and the amounts credited to
\* the winners add up to the pot as it was before it was reset to 0.
SidePotCoverage ==
    \A i \in 1 .. Len(table.handHistory) :
        LET hand == table.handHistory[i]
        IN hand.potAtShowdown # Null =>
              /\ hand.potsAtShowdown = hand.potAtShowdown
              /\ SumWinners(hand) = hand.potAtShowdown

\* C3: turn legality.  In every state, whatever was submitted or ticked
\* before, processAction accepts an action of a seat only if that seat is the
\* current turn seat, is occupied, has not folded and is not all-in; submitAction
\* succeeds only for the agent in the current turn seat; and the seat whose
\* action was accepted is not the current turn seat again in that round.
TurnLegality ==
    /\ \A seatN \in SeatNums, in \in SubmitInputs :
          LET r == processAction(table, seatN, in.action, in.amount, AnyDeck)
          IN r.ok =>
                /\ HandInProgress
                /\ getCurrentTurnSeat(table.currentHand) = seatN
                /\ table.seats[seatN].agent # NoAgent
                /\ ~table.seats[seatN].hasFolded
                /\ ~table.seats[seatN].isAllIn
                /\ (r.t.currentHand # NoHand
                    /\ r.t.currentHand.currentBettingRound
                         = table.currentHand.currentBettingRound)
                       => getCurrentTurnSeat(r.t.currentHand) # seatN
    /\ \A agentId \in SeatedIds(table) \cup {Stranger}, in \in SubmitInputs :
          submitAction(table, TRUE, agentId, in.action, in.amount, AnyDeck).success
              => findSeat(table, agentId) = getCurrentTurnSeat(table.currentHand)

\* A human's action was accepted and recorded, and the turn is now with
\* another seat, whose action would be accepted.
TurnLegalityWitness ==
    /\ HandInProgress
    /\ Len(table.currentHand.actions) > 2
    /\ Last(table.currentHand.actions).agentId[1] = "agent"
    /\ getCurrentTurnSeat(table.currentHand) # Null
    /\ getCurrentTurnSeat(table.currentHand) # Last(table.currentHand.actions).seatNumber
    /\ processAction(table, getCurrentTurnSeat(table.currentHand), "fold", Null, AnyDeck).ok

\* C4: order monotonicity.  In the actions of the current hand no action of a
\* seat follows a fold of that seat.
NoActionAfterFold ==
    HandInProgress =>
        \A i, j \in 1 .. Len(table.currentHand.actions) :
            (i < j /\ table.currentHand.actions[i].action = "fold")
                => table.currentHand.actions[j].seatNumber
                       # table.currentHand.actions[i].seatNumber

\* C6: a short all-in does not reopen the action.  When the seat whose turn it
\* is goes all-in, by 'all-in' or by a 'raise' capped by its stack, for a total
\* above hand.currentBet by less than hand.minRaise, every other seat that had
\* acted still has hasActed set after the switch of processAction.
ShortAllInKeepsActed ==
    \A seatN \in SeatNums,
       in \in {[action |-> "all-in", amount |-> Null]}
              \cup {[action |-> "raise", amount |-> m] : m \in Amounts} :
        (/\ HandInProgress
         /\ getCurrentTurnSeat(table.currentHand) = seatN
         /\ table.seats[seatN].agent # NoAgent
         /\ ~table.seats[seatN].hasFolded
         /\ ~table.seats[seatN].isAllIn)
        => LET r == applyAction(table, seatN, table.currentHand, table.seats[seatN],
                                in.action, in.amount)
               total == table.seats[seatN].currentBet + table.seats[seatN].stack
           IN (/\ r.ok
               /\ r.t.seats[seatN].isAllIn
               /\ total > table.currentHand.currentBet
               /\ total - table.currentHand.currentBet < table.currentHand.minRaise)
              => \A m \in SeatNums \ {seatN} :
                    table.seats[m].hasActed => r.t.seats[m].hasActed

\* C8: rejected actions do not mutate state.  In every state, for every table
\* id, agent id, action name and amount, a submitAction that reports failure
\* and a processAction that returns false leave the table, its seats and its
\* hand exactly as they were.
RejectedLeavesTable ==
    /\ \A tableKnown \in BOOLEAN, agentId \in SeatedIds(table) \cup {Stranger},
          in \in SubmitInputs :
          LET r == submitAction(table, tableKnown, agentId, in.action, in.amount, AnyDeck)
          IN ~r.success => r.t = table
    /\ \A seatN \in SeatNums, in \in SubmitInputs :
          LET r == processAction(table, seatN, in.action, in.amount, AnyDeck)
          IN ~r.ok => r.t = table

\* A human is to act facing a bet: a check, an undersized raise and an
\* unknown action name are rejected while a call is accepted.
RejectedWitness ==
    /\ HandInProgress
    /\ getCurrentTurnSeat(table.currentHand) # Null
    /\ LET sn == getCurrentTurnSeat(table.currentHand)
           id == table.seats[sn].agent.id
       IN /\ table.seats[sn].agent.type = "human"
          /\ table.currentHand.currentBet > table.seats[sn].currentBet
          /\ table.seats[sn].stack > table.currentHand.currentBet + 1
          /\ ~submitAction(table, TRUE, id, "check", Null, AnyDeck).success
          /\ ~submitAction(table, TRUE, id, "raise",
                           table.currentHand.currentBet + 1, AnyDeck).success
          /\ ~submitAction(table, TRUE, id, "muck", Null, AnyDeck).success
          /\ submitAction(table, TRUE, id, "call", Null, AnyDeck).success

\* The table once the deadline of the current turn has passed.
AtDeadline(t) ==
    IF Deadline(t) # Null /\ t.currentHand.elapsed < Deadline(t)
    THEN [t EXCEPT !.currentHand.elapsed = Deadline(t)]
    ELSE t

\* Some pass of processTable changes the table, now or once the deadline of
\* the current turn has passed.
TickerCanMove ==
    \E decision \in TickDecisions(AtDeadline(table)) :
        processTable(AtDeadline(table), decision, AnyDeck) # AtDeadline(table)

\* C5: the tick always makes progress.  No state leaves the table waiting on
\* the same turn for ever: while a hand is in progress a pass of the ticker
\* changes the table, if not at once then after the deadline of the turn,
\* whoever sat down or left before.
TickMakesProgress == HandInProgress => TickerCanMove

\* C7: error recovery keeps chips.  When processing the table throws during a
\* hand, the stacks after the guard hold what the stacks and the pot held
\* before it, and the hand is cleared.
TickGuardKeepsChips ==
    [][(TickThrows /\ HandInProgress)
          => (/\ table'.currentHand = NoHand
              /\ SumStacks(table') = SumStacks(table) + Pot(table))]_vars

\* C9: escrow mirror.  For every seat whose agent has a wallet, the buy-in
\* the engine recorded for the seat is, in token units, the balance the
\* escrow records for that wallet, which the escrow holds as seated.
EscrowMirror ==
    \A n \in SeatNums :
        table.seats[n].agent.walletAddress # NoWallet =>
            /\ escrow[table.seats[n].agent.walletAddress].isSeated
            /\ escrow[table.seats[n].agent.walletAddress].balance
                 = chipsToTokenUnits(table.seats[n].buyIn)

\* C10: sit protocol.  A sit request with a wallet seats the agent only after
\* the deposit of that wallet succeeded, and a request whose deposit succeeded
\* and whose sit the engine rejected started the refund.
SitProtocol ==
    /\ (sitLog.seated /\ sitLog.wallet # NoWallet) => sitLog.deposited
    /\ (sitLog.deposited /\ ~sitLog.seated) => sitLog.refund

\* C11: leave protocol.  A step that empties the seat of an agent with a
\* wallet answers with success and either settles exactly the stack the seat
\* held to that wallet, or, when the settlement failed, leaves the escrow as
\* it was, keeps the seat empty and carries the settlementError marker; a
\* leave the engine rejected changes neither the table nor the escrow.
LeaveProtocol ==
    [][/\ \A n \in SeatNums :
            (table.seats[n].agent.walletAddress # NoWallet /\ table'.seats[n].agent = NoAgent) =>
                /\ leaveLog'.success
                /\ \/ /\ leaveLog'.txHash /\ ~leaveLog'.settlementError
                      /\ vault' = vault - chipsToTokenUnits(table.seats[n].stack)
                      /\ ~escrow'[table.seats[n].agent.walletAddress].isSeated
                   \/ /\ leaveLog'.settlementError /\ ~leaveLog'.txHash
                      /\ escrow' = escrow /\ vault' = vault
       /\ (leaveLog.success /\ ~leaveLog'.success) =>
                (table' = table /\ escrow' = escrow /\ vault' = vault)]_vars

\* A leave whose settlement failed: the marker is set and the seat is empty.
LeaveProtocolWitness ==
    /\ leaveLog.settlementError
    /\ table.seats[MaxSeats - 1].agent = NoAgent
    /\ vault > 0

\* The seats that were dealt into the hand and have not folded.
DealtInNotFolded(t) ==
    {n \in SeatNums : t.seats[n].agent # NoAgent /\ t.seats[n].holeCards = 2
                      /\ ~t.seats[n].hasFolded}

\* The step is an accepted fold of a seat that was dealt into the hand.
FoldStep ==
    /\ HandInProgress
    /\ \E n \in DealtInNotFolded(table) :
          /\ table'.seats[n].hasFolded
          /\ table'.seats[n].agent = table.seats[n].agent

\* C12: fold-out win.  A fold that leaves exactly one player of the hand not
\* folded ends the hand in that step: the pot goes to that player's stack,
\* the hand is archived with that player as its single winner for the pot
\* amount as 'Last player standing', with pot 0 and the community cards it had.
FoldOutWin ==
    [][(FoldStep /\ Cardinality(DealtInNotFolded(table')) = 1) =>
          \E w \in DealtInNotFolded(table') :
             /\ table'.currentHand = NoHand
             /\ Len(table'.handHistory) = Len(table.handHistory) + 1
             /\ Last(table'.handHistory).winners =
                   <<[agentId |-> table.seats[w].agent.id,
                      amount |-> table.currentHand.pot,
                      handName |-> "Last player standing"]>>
             /\ Last(table'.handHistory).pot = 0
             /\ Last(table'.handHistory).communityCards = table.currentHand.communityCards
             /\ table'.seats[w].stack = table.seats[w].stack + table.currentHand.pot]_vars

\* The seat of the human whose turn it is and whose action processAction
\* would take to the switch, Null if there is none.
HumanOnTurn ==
    LET sn == getCurrentTurnSeat(table.currentHand)
    IN IF sn = Null THEN Null
       ELSE IF table.seats[sn].agent.type # "human" \/ table.seats[sn].hasFolded
               \/ table.seats[sn].isAllIn THEN Null
       ELSE sn

\* What the switch of processAction makes of the action the human on turn submits.
Submitted(action, amount) ==
    applyAction(table, HumanOnTurn, table.currentHand, table.seats[HumanOnTurn], action, amount)

\* C13: raise rule.  A raise submitted by the player on turn is accepted only
\* if its raise-to amount reaches currentBet + minRaise or puts the player
\* all-in; an accepted raise leaves hand.currentBet strictly greater than it
\* was, and minRaise becomes the raise size if that is larger.
RaiseRule ==
    HumanOnTurn # Null =>
        \A amount \in Amounts :
            Submitted("raise", amount).ok =>
                /\ \/ Submitted("raise", amount).t.seats[HumanOnTurn].currentBet
                         >= table.currentHand.currentBet + table.currentHand.minRaise
                   \/ Submitted("raise", amount).t.seats[HumanOnTurn].isAllIn
                /\ Submitted("raise", amount).t.currentHand.currentBet
                      > table.currentHand.currentBet
                /\ Submitted("raise", amount).t.currentHand.minRaise
                      = Max(table.currentHand.minRaise,
                            Submitted("raise", amount).t.currentHand.currentBet
                              - table.currentHand.currentBet)

\* C14: call rule.  A call of the player on turn is accepted only when there
\* is an amount to call; it moves min(toCall, stack) chips from the stack to
\* the pot, never chips from the pot to the seat, and the seat is all-in
\* exactly if its stack reached 0.
CallRule ==
    HumanOnTurn # Null =>
        LET toCall == table.currentHand.currentBet - table.seats[HumanOnTurn].currentBet
            moved == Min(toCall, table.seats[HumanOnTurn].stack)
            after == Submitted("call", Null).t
        IN Submitted("call", Null).ok =>
              /\ toCall > 0
              /\ after.seats[HumanOnTurn].stack = table.seats[HumanOnTurn].stack - moved
              /\ after.currentHand.pot = table.currentHand.pot + moved
              /\ after.currentHand.pot >= table.currentHand.pot
              /\ after.seats[HumanOnTurn].isAllIn <=> (after.seats[HumanOnTurn].stack = 0)

\* The seat whose turn it is, if processAction would take its action to the
\* switch, Null otherwise.
OnTurn ==
    LET sn == getCurrentTurnSeat(table.currentHand)
    IN IF sn = Null THEN Null
       ELSE IF table.seats[sn].agent = NoAgent \/ table.seats[sn].hasFolded
               \/ table.seats[sn].isAllIn THEN Null
       ELSE sn

\* The actions the seat on turn can be made to take: what a human can submit,
\* what the ticker decides for a bot.
TurnInputs ==
    IF table.seats[OnTurn].agent.type = "human" THEN SubmitInputs
    ELSE makeBotDecision(table.seats[OnTurn].agent.type, table.seats[OnTurn], table.currentHand)
         \cup {[action |-> "fold", amount |-> Null]}

\* The table after the switch and "Record action" for the action in.
Recorded(in) ==
    recorded(applyAction(table, OnTurn, table.currentHand, table.seats[OnTurn],
                         in.action, in.amount).t,
             OnTurn, recordedAs(table.currentHand, in.action))

\* Every seat of the betting order has folded, is all-in, or has acted and
\* matched the current bet.
RoundSettled(t) ==
    \A i \in 1 .. Len(t.currentHand.activePlayerOrder) :
        LET s == t.seats[t.currentHand.activePlayerOrder[i]]
        IN s.hasFolded \/ s.isAllIn
           \/ (s.hasActed /\ s.currentBet = t.currentHand.currentBet)

\* advanceAction took the table t out of its betting round.
RoundLeft(t, after) ==
    \/ after.currentHand = NoHand
    \/ after.currentHand.currentBettingRound # t.currentHand.currentBettingRound

\* C15: end of a betting round.  After an accepted action that does not end
\* the hand by a fold-out, advanceAction leaves the betting round exactly when
\* every seat of activePlayerOrder has folded, is all-in, or has acted with
\* its currentBet equal to hand.currentBet.
RoundEnd ==
    OnTurn # Null =>
        \A in \in TurnInputs :
            (/\ applyAction(table, OnTurn, table.currentHand, table.seats[OnTurn],
                            in.action, in.amount).ok
             /\ Len(getPlayersStillInHand(Recorded(in))) # 1)
            => (RoundLeft(Recorded(in), advanceAction(Recorded(in), AnyDeck))
                  <=> RoundSettled(Recorded(in)))

\* C16: turn order.  The current turn is a function of the hand, so at most
\* one seat holds it; for the table's current hand getCurrentTurnSeat returns
\* a seat number exactly if the phase is preflop, flop, turn or river, and
\* without a hand it returns none.
TurnOrder ==
    /\ getCurrentTurnSeat(table.currentHand) \in SeatNums \cup {Null}
    /\ HandInProgress =>
          (getCurrentTurnSeat(table.currentHand) \in SeatNums
             <=> table.currentHand.phase \in Rounds)
    /\ ~HandInProgress => getCurrentTurnSeat(table.currentHand) = Null

\* A hand on a street after the flop was dealt, with a seat to act.
TurnOrderWitness ==
    /\ HandInProgress
    /\ table.currentHand.phase \in {"flop", "turn", "river"}
    /\ getCurrentTurnSeat(table.currentHand) \in SeatNums
    /\ \E n \in SeatNums : table.seats[n].isAllIn

\* The step starts a hand that goes on after the blinds.
StartStep == ~HandInProgress /\ table'.currentHand # NoHand

\* C19: short blind.  A small-blind or big-blind seat with fewer chips than
\* its blind posts its whole stack and is all-in; hand.minRaise is the
\* configured big blind and the pot is the sum of the two amounts posted.
ShortBlind ==
    [][StartStep =>
          LET sb == table'.currentHand.smallBlindSeatNumber
              bb == table'.currentHand.bigBlindSeatNumber
          IN /\ table.seats[sb].stack < SmallBlind =>
                   /\ table'.seats[sb].currentBet = table.seats[sb].stack
                   /\ table'.seats[sb].stack = 0
                   /\ table'.seats[sb].isAllIn
             /\ table.seats[bb].stack < BigBlind =>
                   /\ table'.seats[bb].currentBet = table.seats[bb].stack
                   /\ table'.seats[bb].stack = 0
                   /\ table'.seats[bb].isAllIn
             /\ table'.currentHand.minRaise = BigBlind
             /\ table'.currentHand.pot
                   = table'.seats[sb].currentBet + table'.seats[bb].currentBet]_vars

\* A hand in which the big blind posted less than the big blind.
ShortBlindWitness ==
    /\ HandInProgress
    /\ Len(table.currentHand.actions) = 2
    /\ table.currentHand.actions[2].action = "all-in"
    /\ table.currentHand.actions[2].amount < BigBlind
    /\ table.seats[table.currentHand.bigBlindSeatNumber].isAllIn
    /\ table.currentHand.pot < SmallBlind + BigBlind

\* C20: bust-out handling.  When a hand completes, an occupied seat without
\* chips is a human marked sitting-out, a bot has been given a new buy-in;
\* and a step that starts a hand deals in no seat that had no chips.
BustOut ==
    [][/\ (HandInProgress /\ Len(table'.handHistory) > Len(table.handHistory)) =>
            \A n \in SeatNums :
                (table'.seats[n].agent # NoAgent /\ table'.seats[n].stack <= 0) =>
                    (table'.seats[n].agent.type = "human" /\ table'.seats[n].isSittingOut)
       /\ table'.handCount > table.handCount =>
            \A n \in SeatNums :
                table'.seats[n].holeCards = 2 => table.seats[n].stack > 0]_vars

\* C17: showdown hold.  A hand that went to a showdown is archived and
\* cleared only by a step that found it as the table's current hand in phase
\* 'showdown', its winners recorded, with the hold interval elapsed since the
\* last action.
ShowdownHold ==
    [][(/\ Len(table'.handHistory) > Len(table.handHistory)
        /\ Last(table'.handHistory).potAtShowdown # Null) =>
          /\ HandInProgress
          /\ table.currentHand.phase = "showdown"
          /\ table.currentHand.winners = Last(table'.handHistory).winners
          /\ table.currentHand.elapsed >=
                (IF isTableBotOnly(table) THEN BOT_ONLY_SHOWDOWN_MS
                 ELSE SHOWDOWN_DISPLAY_MS)]_vars

\* The step starts a hand at a table with exactly two active seats.
HeadsUpStart ==
    /\ ~HandInProgress
    /\ Len(getActiveSeats(table)) = 2
    /\ table'.currentHand # NoHand

\* The step is the dealer's call of the big blind as the first action of a
\* heads-up hand.
HeadsUpDealerCalls ==
    /\ HandInProgress
    /\ Len(table.currentHand.activePlayerOrder) = 2
    /\ Len(table.currentHand.actions) = 2
    /\ table.currentHand.smallBlindSeatNumber = table.currentHand.dealerSeatNumber
    /\ table'.currentHand # NoHand
    /\ Len(table'.currentHand.actions) = 3
    /\ table'.currentHand.actions[3].action = "call"

\* C18: heads-up positions.  A hand started with exactly two active seats has
\* the dealer as small blind and the other active seat as big blind, the
\* preflop order is dealer first, big blind last, and after the dealer only
\* calls, the big blind has the turn in the same round.
HeadsUpPositions ==
    [][/\ HeadsUpStart =>
            /\ table'.currentHand.smallBlindSeatNumber = table'.currentHand.dealerSeatNumber
            /\ table'.currentHand.bigBlindSeatNumber # table'.currentHand.dealerSeatNumber
            /\ InSeq(table'.currentHand.bigBlindSeatNumber, getActiveSeats(table))
            /\ InSeq(table'.currentHand.dealerSeatNumber, getActiveSeats(table))
            /\ table'.currentHand.activePlayerOrder =
                  <<table'.currentHand.dealerSeatNumber, table'.currentHand.bigBlindSeatNumber>>
            /\ getCurrentTurnSeat(table'.currentHand) = table'.currentHand.dealerSeatNumber
       /\ HeadsUpDealerCalls =>
            /\ table'.currentHand.phase = "preflop"
            /\ getCurrentTurnSeat(table'.currentHand) = table.currentHand.bigBlindSeatNumber]_vars

\* A heads-up hand in which the dealer called and the big blind is to act.
HeadsUpPositionsWitness ==
    /\ HandInProgress
    /\ table.currentHand.phase = "preflop"
    /\ table.currentHand.smallBlindSeatNumber = table.currentHand.dealerSeatNumber
    /\ Len(table.currentHand.actions) = 3
    /\ table.currentHand.actions[3].action = "call"
    /\ table.currentHand.actions[3].seatNumber = table.currentHand.dealerSeatNumber
    /\ getCurrentTurnSeat(table.currentHand) = table.currentHand.bigBlindSeatNumber

\* The table with Date.now() - hand.lastActionAt = ms
ElapsedIs(t, ms) == [t EXCEPT !.currentHand.elapsed = ms]

\* The times the ticker can look at a human's turn: at once, just before the
\* timeout, at the timeout, after it.
TimeoutProbes == {0, TURN_TIMEOUT_MS - 1, TURN_TIMEOUT_MS, TURN_TIMEOUT_MS + 1}

\* The place of the turn in the hand.
TurnPlace(t) ==
    IF t.currentHand = NoHand THEN <<"over", Len(t.handHistory)>>
    ELSE <<t.currentHand.phase, t.currentHand.currentPlayerIndex>>

\* What a pass of the ticker has done to before, a table with seat sn on turn:
\* nothing before the timeout; from the timeout on, exactly the accepted fold
\* (facing a bet) or check of that seat, after which the turn is elsewhere.
TimedOut(before, sn, after, expected) ==
    IF before.currentHand.elapsed < TURN_TIMEOUT_MS THEN after = before
    ELSE /\ processAction(before, sn, expected, Null, AnyDeck).ok
         /\ after = processAction(before, sn, expected, Null, AnyDeck).t
         /\ TurnPlace(after) # TurnPlace(before)
         /\ after.currentHand # NoHand =>
               /\ Last(after.currentHand.actions).seatNumber = sn
               /\ Last(after.currentHand.actions).action = expected

\* C21: the ticker acts for a human on turn only when at least 30 s have
\* passed since hand.lastActionAt; it then records a fold if the seat faces a
\* bet and a check otherwise, and the turn moves on.
HumanTimeout ==
    Deadline(table) = TURN_TIMEOUT_MS =>
        \A ms \in TimeoutProbes :
            TimedOut(ElapsedIs(table, ms), getCurrentTurnSeat(table.currentHand),
                     processTable(ElapsedIs(table, ms), [action |-> "fold", amount |-> Null],
                                  AnyDeck),
                     IF table.currentHand.currentBet
                          > table.seats[getCurrentTurnSeat(table.currentHand)].currentBet
                     THEN "fold" ELSE "check")

\* A human has been timed out: the clock reached 30 s on the human's turn and
\* the next pass of the ticker acted for the seat.
HumanTimeoutWitness ==
    /\ Deadline(table) = TURN_TIMEOUT_MS
    /\ table.currentHand.elapsed = TURN_TIMEOUT_MS
    /\ table.currentHand.currentBet
          > table.seats[getCurrentTurnSeat(table.currentHand)].currentBet

\* The result of a rebuy of amount by the agent in seat sn of t, as the
\* contract has it: refused with nothing changed, or granted between hands
\* within the cap with stack and buyIn both raised by amount.
RebuyOutcome(t, sn, amount, r) ==
    IF r.success
    THEN /\ t.currentHand = NoHand
         /\ t.seats[sn].stack + amount <= MaxBuyIn
         /\ r.t = [t EXCEPT !.seats[sn].stack = @ + amount, !.seats[sn].buyIn = @ + amount]
    ELSE r.t = t

\* C22: rebuyAgent succeeds only between hands and only if stack + amount <=
\* maxBuyIn; on success stack and buyIn both grow by exactly amount, on
\* failure nothing changes.
RebuyRule ==
    \A agentId \in SeatedIds(table), amount \in 1 .. MaxBuyIn :
        RebuyOutcome(table, findSeat(table, agentId), amount,
                     rebuyAgent(table, agentId, amount))

\* The seats and buy-ins a sit request can name, in and out of range.
AnySeatNumber == -1 .. MaxSeats
AnyBuyIn == (MinBuyIn - 1) .. (MaxBuyIn + 1)

\* A sit is admissible at t: the seat exists and is empty, the buy-in is in range.
SitAdmissible(t, seatNumber, buyInAmount) ==
    /\ seatNumber \in SeatNums
    /\ t.seats[seatNumber].agent = NoAgent
    /\ buyInAmount >= MinBuyIn /\ buyInAmount <= MaxBuyIn

\* r is the result of a sit at t: it succeeds exactly when admissible, a
\* failure leaves the table as it was, and after a success neither a second
\* sit into the same seat nor an addBot takes the seat from its agent.
SitOutcome(t, seatNumber, buyInAmount, r) ==
    /\ r.success <=> SitAdmissible(t, seatNumber, buyInAmount)
    /\ ~r.success => r.t = t
    /\ r.success =>
          /\ r.t.seats[seatNumber].agent = r.agent
          /\ \A b2 \in AnyBuyIn :
                LET second == sitAgent(r.t, seatNumber, b2, NoWallet, nextId + 2)
                IN ~second.success /\ second.t = r.t
          /\ addBot(r.t, "house_fish", nextId + 2).t.seats[seatNumber] = r.t.seats[seatNumber]

\* An agent appears in a seat in this step only if the seat was empty, and the
\* registry (the agents created so far) grows exactly when a seat is taken.
SeatStep ==
    /\ \A k \in SeatNums :
          table.seats[k].agent # NoAgent
              => table'.seats[k].agent \in {table.seats[k].agent, NoAgent}
    /\ nextId' # nextId <=>
          \E k \in SeatNums : table.seats[k].agent = NoAgent /\ table'.seats[k].agent # NoAgent
    /\ Cardinality({k \in SeatNums :
                       table.seats[k].agent = NoAgent /\ table'.seats[k].agent # NoAgent}) <= 1

\* C23: for any interleaving of sitAgent and addBot calls a seat never holds
\* more than one agent; a sit into an occupied seat, a seat index out of
\* range or with a buy-in out of range fails and leaves table and registry
\* unchanged; of two sits into the same empty seat exactly the first succeeds.
SeatExclusivity ==
    [][/\ SeatStep
       /\ \A seatNumber \in AnySeatNumber, buyInAmount \in AnyBuyIn :
             SitOutcome(table, seatNumber, buyInAmount,
                        sitAgent(table, seatNumber, buyInAmount, NoWallet, nextId + 1))]_vars

\* sitAgent has seated a human while the other requests were served: the
\* table holds a human and four agents have been registered.
SeatExclusivityWitness ==
    /\ nextId = 4
    /\ requests = 2
    /\ \E k \in SeatNums : table.seats[k].agent # NoAgent /\ table.seats[k].agent.type = "human"

\* The cards another deal could have put into a seat that holds cards.
OtherCards == 3

\* t with the hole cards of every player but the caller dealt differently
OthersRedealt(t, agentId) ==
    [t EXCEPT !.seats = [n \in SeatNums |->
        IF t.seats[n].agent # NoAgent /\ t.seats[n].agent.id # agentId
           /\ t.seats[n].holeCards # 0
        THEN [t.seats[n] EXCEPT !.holeCards = OtherCards]
        ELSE t.seats[n]]]

\* The seats of view whose cards the caller agentId may not see at t: seats
\* of others, unless the hand is at showdown and the seat has not folded.
Masked(t, agentId, view) ==
    \A n \in SeatNums :
        (/\ t.seats[n].agent # NoAgent
         /\ t.seats[n].agent.id # agentId
         /\ view.seats[n].holeCards \notin {Null, 0})
            => /\ t.currentHand # NoHand
               /\ t.currentHand.phase = "showdown"
               /\ ~t.seats[n].hasFolded

\* C24: in the table view returned to a caller, the hole cards of a seat other
\* than the caller's own are present only at showdown for a seat that has not
\* folded; states that differ only in other players' hole cards give the same
\* view before showdown.
HoleCardMasking ==
    \A agentId \in SeatedIds(table) :
        /\ Masked(table, agentId, agentStateView(table, agentId))
        /\ Masked(table, agentId, getTableView(table))
        /\ (table.currentHand = NoHand \/ table.currentHand.phase # "showdown")
              => /\ agentStateView(OthersRedealt(table, agentId), agentId)
                      = agentStateView(table, agentId)
                 /\ getTableView(OthersRedealt(table, agentId)) = getTableView(table)

\* The hand numbers given since initialization, oldest first.
HandNumbers(t) ==
    [i \in 1 .. Len(t.handHistory) |-> t.handHistory[i].handNumber]
        \o (IF t.currentHand = NoHand THEN <<>> ELSE <<t.currentHand.handNumber>>)

\* C25: hand numbers continue across a restart: successive hands get strictly
\* increasing handNumbers, none above handCount, and every hand started after
\* initialization has a handNumber greater than the highest one persisted
\* before the restart, wherever restoreHandCounts completes relative to the
\* first ticks.
HandNumbersContinue ==
    LET numbers == HandNumbers(table)
    IN /\ \A i \in 1 .. Len(numbers) :
             /\ numbers[i] > restore.maxHandNumber
             /\ numbers[i] <= table.handCount
             /\ i > 1 => numbers[i] > numbers[i - 1]

\* r is what a settlement of player with finalStack by caller has made of c:
\* paid out and unseated, or reverted with everything as it was.
Settled(c, caller, tableKnown, player, finalStack, r) ==
    IF caller = Owner /\ tableKnown /\ c.exists /\ c.players[player].isSeated
       /\ finalStack <= c.held
    THEN /\ r.ok
         /\ r.c.wallet[player] = c.wallet[player] + finalStack
         /\ r.c.held = c.held - finalStack
         /\ \A w \in Wallets \ {player} :
               r.c.wallet[w] = c.wallet[w] /\ r.c.players[w] = c.players[w]
         /\ r.c.players[player].balance = 0
         /\ ~r.c.players[player].isSeated
         /\ ~InSeq(player, r.c.playerList)
         /\ \A w \in Wallets \ {player} : InSeq(w, r.c.playerList) <=> InSeq(w, c.playerList)
         /\ Len(r.c.playerList) = Len(c.playerList) - 1
    ELSE ~r.ok /\ r.c = c

\* C26: settleAndWithdraw by the owner for a seated player transfers exactly
\* finalStack tokens to the player, zeroes the recorded balance, unseats the
\* player and removes the player from the player list; it reverts with all
\* state and balances unchanged when the caller is not the owner, the table
\* does not exist, the player is not seated, or finalStack exceeds the
\* contract's token balance.
EscrowSettlement ==
    \A caller \in Callers, tableKnown \in BOOLEAN, player \in Wallets,
       finalStack \in FinalStacks \cup {contract.held, contract.held + 1} :
        Settled(contract, caller, tableKnown, player, finalStack,
                contractSettleAndWithdraw(contract, caller, tableKnown, player, finalStack))

\* A settlement has happened while another player stays seated: one wallet
\* holds more tokens than it started with and is unseated, the other is
\* still in the player list.
EscrowSettlementWitness ==
    \E p \in Wallets, q \in Wallets :
        /\ p # q
        /\ contract.wallet[p] > WalletTokens
        /\ ~contract.players[p].isSeated
        /\ contract.players[q].isSeated
        /\ contract.playerList = <<q>>

\* r is what the owner's emergencyRefund has made of c: every seated player
\* paid the recorded balance and unseated with balance 0, the player list
\* empty, and each refunded player able to deposit that amount again.
Refunded(c, r) ==
    /\ r.ok
    /\ r.c.playerList = <<>>
    /\ \A w \in Wallets :
          IF c.players[w].isSeated
          THEN /\ r.c.wallet[w] = c.wallet[w] + c.players[w].balance
               /\ r.c.players[w].balance = 0
               /\ ~r.c.players[w].isSeated
               /\ contractDeposit(r.c, TRUE, w, c.players[w].balance).ok
          ELSE r.c.wallet[w] = c.wallet[w]

\* C27: whenever the owner calls emergencyRefund on an existing table, after
\* any sequence of deposits, rebuys and settlements, every player still
\* seated receives exactly the recorded escrow balance, is marked not seated
\* with balance 0, the player list becomes empty, and the players can
\* deposit again afterwards.
EmergencyRefundAll ==
    contract.exists => Refunded(contract, emergencyRefund(contract, Owner, TRUE))

\* The side pots of the contract for the players of a showdown: one pot per
\* distinct positive level of total contribution, ascending, of size (level -
\* level before) x (players who contributed at least the level), eligible to
\* exactly those players.
LevelsOf(players) == SetToSeq({p.total : p \in players} \ {0})

PotsByLevel(pots, players, levels) ==
    /\ Len(pots) = Len(levels)
    /\ \A k \in 1 .. Len(levels) :
          LET atLeast == {p \in players : p.total >= levels[k]}
              before == IF k = 1 THEN 0 ELSE levels[k - 1]
          IN /\ pots[k].amount = (levels[k] - before) * Cardinality(atLeast)
             /\ {pots[k].eligibleAgentIds[j] : j \in 1 .. Len(pots[k].eligibleAgentIds)}
                   = {p.agentId : p \in atLeast}

\* C28: when at least one remaining player is all-in, the pots are built from
\* the per-player total contributions sorted ascending, the pot of each
\* distinct level having size (level - previous level) x (number of players
\* who contributed at least that level) and eligible set exactly those players.
SidePotConstruction ==
    \A i \in 1 .. Len(table.handHistory) :
        LET s == table.handHistory[i].showdown
        IN (\E p \in s.players : p.inHand /\ p.isAllIn)
              => PotsByLevel(s.sidePots, s.players, LevelsOf(s.players))

\* The seat of the agent in the record of a showdown.
SeatAtShowdown(s, agentId) == (CHOOSE p \in s.players : p.agentId = agentId).seatNumber

\* How far clockwise from the dealer a seat is: the seat left of the dealer
\* is first, the dealer last.
FromDealer(dealerSeatNumber, n) == (n - dealerSeatNumber - 1) % MaxSeats

\* The winners of a pot hold equal shares of it, and what the integer division
\* leaves over is with the winner first clockwise from the dealer.
SplitEqually(hand, pot, winners) ==
    LET share == pot.amount \div Len(winners)
        remainder == pot.amount - share * Len(winners)
        seatOf(j) == SeatAtShowdown(hand.showdown, winners[j].agentId)
        earliest == CHOOSE j \in 1 .. Len(winners) :
                        \A k \in 1 .. Len(winners) :
                            FromDealer(hand.dealerSeatNumber, seatOf(j))
                                <= FromDealer(hand.dealerSeatNumber, seatOf(k))
    IN \A j \in 1 .. Len(winners) :
          winners[j].amount = share + (IF j = earliest THEN remainder ELSE 0)

\* C29: each pot is divided equally (integer division) among the tied best
\* hands eligible for it, and the chips left over go to the tied winner who is
\* first clockwise from the dealer, not to one chosen by seat number or list
\* position.  Checked on the showdowns with one pot, whose winners are the
\* winners of that pot.
SplitPots ==
    \A i \in 1 .. Len(table.handHistory) :
        LET hand == table.handHistory[i]
        IN (hand.potAtShowdown # Null /\ Len(hand.showdown.sidePots) = 1
            /\ Len(hand.winners) > 0)
              => SplitEqually(hand, hand.showdown.sidePots[1], hand.winners)

\* The seats that are occupied and not sitting out.
ActiveSet(t) == {n \in SeatNums : t.seats[n].agent # NoAgent /\ ~t.seats[n].isSittingOut}

\* The first active seat clockwise after seat n.
Clockwise(t, n) ==
    CHOOSE m \in ActiveSet(t) :
        \A k \in ActiveSet(t) : (m - n - 1) % MaxSeats <= (k - n - 1) % MaxSeats

\* The step starts a hand, whether or not it goes on after the blinds.
HandStarts == ~HandInProgress /\ table'.handCount # table.handCount

\* The dealer of a hand started at table t.
ButtonMoved(t, dealerSeatNumber, dealt) ==
    /\ dealerSeatNumber =
          IF Len(t.handHistory) = 0
          THEN CHOOSE m \in ActiveSet(t) : \A k \in ActiveSet(t) : m <= k
          ELSE Clockwise(t, Last(t.handHistory).dealerSeatNumber)
    /\ dealerSeatNumber \in dealt

\* The positions of hand, started at table t.
Rotated(t, hand, dealt) ==
    /\ ButtonMoved(t, hand.dealerSeatNumber, dealt)
    /\ Cardinality(ActiveSet(t)) >= 3 =>
          /\ hand.smallBlindSeatNumber = Clockwise(t, hand.dealerSeatNumber)
          /\ hand.bigBlindSeatNumber = Clockwise(t, hand.smallBlindSeatNumber)
    /\ {hand.dealerSeatNumber, hand.smallBlindSeatNumber, hand.bigBlindSeatNumber}
          \subseteq (ActiveSet(t) \cap dealt)

\* C30: the first hand's dealer is the first active seat; for every later
\* hand the dealer is the next active seat clockwise from the previous hand's
\* dealer; with three or more active seats the small blind is the next active
\* seat after the dealer and the big blind the next after the small blind, so
\* dealer, SB and BB always designate seats dealt into the hand.
DealerRotation ==
    [][/\ HandStarts =>
             ButtonMoved(table,
                         IF table'.currentHand # NoHand
                         THEN table'.currentHand.dealerSeatNumber
                         ELSE Last(table'.handHistory).dealerSeatNumber,
                         {n \in SeatNums : table'.seats[n].holeCards # 0})
       /\ StartStep =>
             Rotated(table, table'.currentHand,
                     {n \in SeatNums : table'.seats[n].holeCards # 0})]_vars

\* A later hand has started at a table of three where the human sits out: the
\* button went from seat 1 past the human's seat to seat 0.
DealerRotationWitness ==
    /\ HandInProgress
    /\ Len(table.handHistory) = 1
    /\ table.seats[2].agent # NoAgent /\ table.seats[2].isSittingOut
    /\ Last(table.handHistory).dealerSeatNumber = 1
    /\ table.currentHand.dealerSeatNumber = 0

\* C31: after any sequence of deposit, settleAndWithdraw, batchSettle and
\* emergencyRefund calls the table's playerList contains exactly the
\* addresses whose isSeated flag is true, each exactly once.
PlayerListIntegrity ==
    /\ {contract.playerList[i] : i \in 1 .. Len(contract.playerList)}
          = {w \in Wallets : contract.players[w].isSeated}
    /\ \A i \in 1 .. Len(contract.playerList), j \in 1 .. Len(contract.playerList) :
          contract.playerList[i] = contract.playerList[j] => i = j

\* The first depositor has been settled out of a list of two: w1 has
\* deposited and holds winnings, and the list is the other player alone.
PlayerListIntegrityWitness ==
    /\ contract.playerList = <<"w2">>
    /\ ~contract.players["w1"].isSeated
    /\ contract.players["w1"].totalDeposited > 0
    /\ contract.wallet["w1"] > WalletTokens

\* The ids of the players of a showdown who have not folded.
InHandIds(s) == {p.agentId : p \in {q \in s.players : q.inHand}}

\* C32: at a showdown with at least one all-in player every pot's
\* eligibleAgentIds contains the id of a seated player who has not folded,
\* and every pot is credited to some stack: the winners' amounts add up to
\* the amounts of the pots.
EveryPotPaid ==
    \A i \in 1 .. Len(table.handHistory) :
        LET hand == table.handHistory[i]
            s == hand.showdown
        IN (\E p \in s.players : p.inHand /\ p.isAllIn) =>
              /\ \A k \in 1 .. Len(s.sidePots) :
                    \E j \in 1 .. Len(s.sidePots[k].eligibleAgentIds) :
                        s.sidePots[k].eligibleAgentIds[j] \in InHandIds(s)
              /\ SumWinners(hand) = SumAmounts(s.sidePots)

\* The positions of activePlayerOrder whose seat has not folded, is not
\* all-in and still has to act.
ToAct(t) ==
    {j \in 0 .. Len(t.currentHand.activePlayerOrder) - 1 :
        LET s == t.seats[t.currentHand.activePlayerOrder[j + 1]]
        IN ~s.hasFolded /\ ~s.isAllIn /\ ~s.hasActed}

\* The first position of ToAct(t) after position i, wrapping around.
NextAfter(t, i) ==
    LET len == Len(t.currentHand.activePlayerOrder)
    IN CHOOSE j \in ToAct(t) :
          \A k \in ToAct(t) : (j - i - 1) % len <= (k - i - 1) % len

\* C33: after an accepted action of the seat at position i of
\* activePlayerOrder that leaves the betting round open, the turn is with the
\* first seat after position i (wrapping around) that has not folded, is not
\* all-in and still has to act.
TurnPassesClockwise ==
    OnTurn # Null =>
        \A in \in TurnInputs :
            (/\ applyAction(table, OnTurn, table.currentHand, table.seats[OnTurn],
                            in.action, in.amount).ok
             /\ Len(getPlayersStillInHand(Recorded(in))) # 1
             /\ ToAct(Recorded(in)) # {})
            => advanceAction(Recorded(in), AnyDeck).currentHand.currentPlayerIndex
                  = NextAfter(Recorded(in), table.currentHand.currentPlayerIndex)

\* C34: within one betting round hand.currentBet never decreases: every
\* accepted action of the seat on turn leaves hand.currentBet at least what
\* it was before the action.
CurrentBetMonotone ==
    OnTurn # Null =>
        \A in \in TurnInputs :
            applyAction(table, OnTurn, table.currentHand, table.seats[OnTurn],
                        in.action, in.amount).ok
            => Recorded(in).currentHand.currentBet >= table.currentHand.currentBet

\* The step seats an agent in seat n while a hand is in progress.
SeatedMidHand(n) ==
    /\ HandInProgress
    /\ table'.currentHand # NoHand
    /\ table.seats[n].agent = NoAgent
    /\ table'.seats[n].agent # NoAgent

\* C35: an agent seated by sitAgent or addBot while a hand is in progress
\* takes no part in that hand: it holds no hole cards, is not the
\* current-turn seat and is not counted among the players still in the hand.
SeatedMidHandStaysOut ==
    [][\A n \in SeatNums :
          SeatedMidHand(n) =>
              /\ table'.seats[n].holeCards = 0
              /\ getCurrentTurnSeat(table'.currentHand) # n
              /\ ~InSeq(n, getPlayersStillInHand(table'))]_vars

\* The step is a stand call, during a hand, of the player in seat n who was
\* dealt in and has not folded.
StoodUpMidHand(n) ==
    /\ HandInProgress
    /\ table'.currentHand # NoHand
    /\ table.seats[n].holeCards = 2
    /\ InSeq(n, getPlayersStillInHand(table))
    /\ table'.seats[n].agent = table.seats[n].agent
    /\ table'.seats[n].isSittingOut

\* C36: standAgent during a hand does not change the hand's outcome: a
\* player who was dealt in and has not folded stays counted among the players
\* still in the hand.
StandKeepsPlayerInHand ==
    [][\A n \in SeatNums :
          StoodUpMidHand(n) => InSeq(n, getPlayersStillInHand(table'))]_vars

\* C37: leaving on one's own turn passes the turn or ends the hand: in no
\* reachable state does the hand's current-turn seat designate an empty seat.
TurnSeatOccupied ==
    (HandInProgress /\ getCurrentTurnSeat(table.currentHand) # Null)
        => table.seats[getCurrentTurnSeat(table.currentHand)].agent # NoAgent

\* The recorded balances of the players still seated at the table.
SeatedBalances ==
    LET seated == SetToSeq({i \in 1 .. Len(contract.playerList) :
                     contract.players[contract.playerList[i]].isSeated})
    IN SumSeq(Array([k \in 1 .. Len(seated) |->
                        contract.players[contract.playerList[seated[k]]].balance]))

\* C38: escrow solvency.  After any sequence of deposit, rebuy,
\* settleAndWithdraw, batchSettle and emergencyRefund calls the contract's
\* token balance is at least the sum of the recorded balances of the players
\* still seated.
EscrowSolvency == contract.held >= SeatedBalances

\* The step is a request of wallet w to POST /api/tables/[id]/sit that the
\* engine rejected and whose compensating settlement unseated w in the escrow.
RefundSettled(w) ==
    /\ sitLog'.route = "sit"
    /\ escrow[w].isSeated
    /\ ~escrow'[w].isSeated
    /\ table' = table
    /\ sitLog'.wallet = w
    /\ sitLog'.refund
    /\ ~sitLog'.seated

\* C39: the settlement issued when sitAgent rejects a sit request never
\* settles a wallet whose agent is still seated in the engine at the table.
RefundSpareSeated ==
    [][\A w \in Wallets :
          RefundSettled(w) =>
              \A n \in SeatNums :
                  table.seats[n].agent # NoAgent => table.seats[n].agent.walletAddress # w]_vars

\* winner.agent.handsWon++ goes with every entry pushed to hand.winners: what
\* the hand added to the handsWon of the agent.
handsWonIn(hand, agentId) ==
    Cardinality({j \in 1 .. Len(hand.winners) : hand.winners[j].agentId = agentId})

====
